---- MODULE Spec2Model ----
(***************************************************************************)
(* Model of the ks3 SDK: the request-signing engine                        *)
(* (src/src/signature/signer.rs and its collaborators), the region table,  *)
(* the XML cursor and the error classifiers of the response side, and the  *)
(* readers over a payload stream.                                          *)
(*                                                                         *)
(* Rust `String`/`&str`/`Vec<u8>` values are TLA+ strings, read one byte   *)
(* at a time with SubSeq; only ASCII text is drawn as input.               *)
(* `Option<T>` is None or Some(v).  A `BTreeMap<String, T>` is a function  *)
(* whose domain is a finite set of strings, iterated in ascending byte     *)
(* order of its keys.                                                      *)
(***************************************************************************)
EXTENDS Integers, Sequences, FiniteSets, TLC

(***************************************************************************)
(* Option<T>                                                               *)
(***************************************************************************)
None == [some |-> FALSE]

Some(v) == [some |-> TRUE, v |-> v]

(***************************************************************************)
(* Bytes of a string.                                                      *)
(***************************************************************************)
\* The printable ASCII characters in code order, in two runs: 0x20..0x5F and
\* 0x61..0x7E (the grave accent 0x60 cannot be written in a TLA+ string and
\* is never drawn as input).
AsciiLow == " !\"#$%&'()*+,-./0123456789:;<=>?@ABCDEFGHIJKLMNOPQRSTUVWXYZ[\\]^_"

AsciiHigh == "abcdefghijklmnopqrstuvwxyz{|}~"

CharAt(s, i) == SubSeq(s, i, i)

\* Byte value of each one-character string (line feed is 10, the two runs
\* start at 32 and 97).
OrdMap ==
    [c \in {"\n"} \cup {CharAt(AsciiLow, i) : i \in 1..Len(AsciiLow)}
                  \cup {CharAt(AsciiHigh, i) : i \in 1..Len(AsciiHigh)} |->
        IF c = "\n" THEN 10
        ELSE IF \E i \in 1..Len(AsciiLow) : CharAt(AsciiLow, i) = c
        THEN (CHOOSE i \in 1..Len(AsciiLow) : CharAt(AsciiLow, i) = c) + 31
        ELSE (CHOOSE i \in 1..Len(AsciiHigh) : CharAt(AsciiHigh, i) = c) + 96]

Ord(c) == OrdMap[c]

\* The one-character string of a byte value.
Chr(n) ==
    IF n = 10 THEN "\n"
    ELSE IF n < 97 THEN CharAt(AsciiLow, n - 31)
    ELSE CharAt(AsciiHigh, n - 96)

\* <[u8] as Ord>::lt : lexicographic order on bytes, a proper prefix first.
RECURSIVE StrLess(_, _)
StrLess(a, b) ==
    IF b = "" THEN FALSE
    ELSE IF a = "" THEN TRUE
    ELSE IF Head(a) = Head(b) THEN StrLess(Tail(a), Tail(b))
    ELSE Ord(Head(a)) < Ord(Head(b))

\* str::starts_with
StartsWith(s, p) == Len(s) >= Len(p) /\ SubSeq(s, 1, Len(p)) = p

\* str::find : index (1-based) of the first occurrence of pat, 0 when absent.
Find(s, pat) ==
    LET hits == {i \in 1..Len(s) : i + Len(pat) - 1 <= Len(s)
                                   /\ SubSeq(s, i, i + Len(pat) - 1) = pat}
    IN IF hits = {} THEN 0 ELSE CHOOSE i \in hits : \A j \in hits : i <= j

\* str::split(ch).collect::<Vec<&str>>()
RECURSIVE Split(_, _)
Split(s, ch) ==
    LET p == Find(s, ch)
    IN IF p = 0 THEN <<s>>
       ELSE <<SubSeq(s, 1, p - 1)>> \o Split(SubSeq(s, p + 1, Len(s)), ch)

\* [&str]::join(sep)
RECURSIVE Join(_, _)
Join(parts, sep) ==
    IF parts = <<>> THEN ""
    ELSE IF Len(parts) = 1 THEN parts[1]
    ELSE parts[1] \o sep \o Join(Tail(parts), sep)

\* u8::to_ascii_lowercase, for every byte.
LowerMap ==
    [c \in DOMAIN OrdMap |->
        IF OrdMap[c] >= OrdMap["A"] /\ OrdMap[c] <= OrdMap["Z"]
        THEN Chr(OrdMap[c] + (OrdMap["a"] - OrdMap["A"]))
        ELSE c]

LowerChar(c) == LowerMap[c]

\* String::make_ascii_lowercase
RECURSIVE ToAsciiLowercase(_)
ToAsciiLowercase(s) ==
    IF s = "" THEN "" ELSE LowerChar(Head(s)) \o ToAsciiLowercase(Tail(s))

\* format!("{}", n) for a non-negative integer.
Digits == "0123456789"

RECURSIVE ToDecimal(_)
ToDecimal(n) ==
    IF n < 10 THEN CharAt(Digits, n + 1)
    ELSE ToDecimal(n \div 10) \o CharAt(Digits, (n % 10) + 1)

\* Iteration order of a BTreeMap<String, _> with the given key set.
RECURSIVE SortedKeys(_)
SortedKeys(S) ==
    IF S = {} THEN <<>>
    ELSE LET m == CHOOSE k \in S : \A o \in S \ {k} : StrLess(k, o)
         IN <<m>> \o SortedKeys(S \ {m})

(***************************************************************************)
(* Region (src/src/signature/region.rs)                                    *)
(***************************************************************************)
\* Region::name for the named variants.
RegionName ==
    [ApEast1 |-> "ap-east-1", ApNortheast1 |-> "ap-northeast-1",
     ApNortheast2 |-> "ap-northeast-2", ApNortheast3 |-> "ap-northeast-3",
     ApSouth1 |-> "ap-south-1", ApSoutheast1 |-> "ap-southeast-1",
     ApSoutheast2 |-> "ap-southeast-2", CaCentral1 |-> "ca-central-1",
     EuCentral1 |-> "eu-central-1", EuWest1 |-> "eu-west-1",
     EuWest2 |-> "eu-west-2", EuWest3 |-> "eu-west-3",
     EuNorth1 |-> "eu-north-1", EuSouth1 |-> "eu-south-1",
     MeSouth1 |-> "me-south-1", SaEast1 |-> "sa-east-1",
     UsEast1 |-> "us-east-1", UsEast2 |-> "us-east-2",
     UsWest1 |-> "us-west-1", UsWest2 |-> "us-west-2",
     UsGovEast1 |-> "us-gov-east-1", UsGovWest1 |-> "us-gov-west-1",
     CnNorth1 |-> "cn-north-1", CnNorthwest1 |-> "cn-northwest-1",
     AfSouth1 |-> "af-south-1"]

\* The named variants of enum Region.
NamedVariants == DOMAIN RegionName

Named(v) == [variant |-> v]

Custom(n, e) == [variant |-> "Custom", name |-> n, endpoint |-> e]

IsCustom(region) == region.variant = "Custom"

\* Region::name
Name(region) ==
    IF IsCustom(region) THEN region.name ELSE RegionName[region.variant]

(***************************************************************************)
(* Percent-encoding (src/src/signature/signer.rs)                          *)
(***************************************************************************)
HexDigits == "0123456789ABCDEF"

\* NON_ALPHANUMERIC: the ASCII bytes that are neither letters nor digits.
NON_ALPHANUMERIC ==
    {c \in DOMAIN OrdMap :
        ~ \/ OrdMap[c] >= OrdMap["0"] /\ OrdMap[c] <= OrdMap["9"]
          \/ OrdMap[c] >= OrdMap["A"] /\ OrdMap[c] <= OrdMap["Z"]
          \/ OrdMap[c] >= OrdMap["a"] /\ OrdMap[c] <= OrdMap["z"]}

\* STRICT_ENCODE_SET: every non-alphanumeric byte except - . _ ~
STRICT_ENCODE_SET == NON_ALPHANUMERIC \ {"-", ".", "_", "~"}

\* STRICT_PATH_ENCODE_SET: the strict set without /
STRICT_PATH_ENCODE_SET == STRICT_ENCODE_SET \ {"/"}

\* percent_encoding::percent_encode_byte : %XY with uppercase hex digits.
PercentEncodeByte(c) ==
    "%" \o CharAt(HexDigits, (Ord(c) \div 16) + 1)
        \o CharAt(HexDigits, (Ord(c) % 16) + 1)

RECURSIVE encode_uri_strict(_)
encode_uri_strict(uri) ==
    IF uri = "" THEN ""
    ELSE (IF Head(uri) \in STRICT_ENCODE_SET
          THEN PercentEncodeByte(Head(uri)) ELSE Head(uri))
         \o encode_uri_strict(Tail(uri))

\* Variant of encode_uri_path that escapes the slash as well.
encode_uri_path_escaping(uri) == encode_uri_strict(uri)

RECURSIVE encode_uri_path(_)
encode_uri_path(uri) ==
    IF uri = "" THEN ""
    ELSE (IF Head(uri) \in STRICT_PATH_ENCODE_SET
          THEN PercentEncodeByte(Head(uri)) ELSE Head(uri))
         \o encode_uri_path(Tail(uri))

(***************************************************************************)
(* Endpoint and hostname resolution                                        *)
(***************************************************************************)
\* extract_endpoint_components: <<host, Option<path>>>
extract_endpoint_components(endpoint) ==
    LET s == Find(endpoint, "://")
        unschemed == IF s = 0 THEN endpoint
                     ELSE SubSeq(endpoint, s + 3, Len(endpoint))
        p == Find(unschemed, "/")
    IN IF p = 0 THEN <<unschemed, None>>
       ELSE <<SubSeq(unschemed, 1, p - 1),
              Some(SubSeq(unschemed, p, Len(unschemed)))>>

\* Variant of extract_hostname that looks for the first "/" without taking
\* the scheme away.
extract_hostname_schemed(endpoint) ==
    LET p == Find(endpoint, "/")
    IN IF p = 0 THEN endpoint ELSE SubSeq(endpoint, 1, p - 1)

extract_hostname(endpoint) == extract_endpoint_components(endpoint)[1]

extract_endpoint_path(endpoint) == extract_endpoint_components(endpoint)[2]

IsChina(region) == region.variant \in {"CnNorth1", "CnNorthwest1"}

IsGov(region) == region.variant \in {"UsGovEast1", "UsGovWest1"}

\* build_hostname
build_hostname(service, region) ==
    IF IsCustom(region) THEN extract_hostname(region.endpoint)
    ELSE CASE service = "organizations" ->
                IF IsChina(region)
                THEN "organizations.cn-northwest-1.amazonaws.com.cn"
                ELSE IF IsGov(region)
                THEN "organizations.us-gov-west-1.amazonaws.com"
                ELSE "organizations.us-east-1.amazonaws.com"
           [] service = "iam" ->
                IF IsChina(region)
                THEN service \o "." \o Name(region) \o ".amazonaws.com.cn"
                ELSE service \o ".amazonaws.com"
           [] service = "chime" -> "service." \o service \o ".aws.amazon.com"
           [] service = "cloudfront" -> service \o ".amazonaws.com"
           [] service = "importexport" -> "importexport.amazonaws.com"
           [] service = "s3" ->
                IF IsChina(region)
                THEN "s3." \o Name(region) \o ".amazonaws.com.cn"
                ELSE "s3." \o Name(region) \o ".amazonaws.com"
           [] service = "route53" -> "route53.amazonaws.com"
           [] service = "sdb" ->
                IF region.variant = "UsEast1" THEN "sdb.amazonaws.com"
                ELSE "sdb." \o Name(region) \o ".amazonaws.com"
           [] OTHER ->
                IF IsChina(region)
                THEN service \o "." \o Name(region) \o ".amazonaws.com.cn"
                ELSE service \o "." \o Name(region) \o ".amazonaws.com"

(***************************************************************************)
(* Canonical forms                                                         *)
(***************************************************************************)
\* canonical_uri(path, region)
CanonicalUriOf(path, region) ==
    LET endpoint_path == IF IsCustom(region)
                         THEN extract_endpoint_path(region.endpoint)
                         ELSE None
    IN IF endpoint_path.some /\ path = "" THEN endpoint_path.v
       ELSE IF path = "" THEN "/"
       ELSE IF endpoint_path.some THEN encode_uri_path(endpoint_path.v \o path)
       ELSE encode_uri_path(path)

\* One step of the loop of build_canonical_query_string over the sorted keys.
RECURSIVE QueryLoop(_, _, _)
QueryLoop(keys, params, output) ==
    IF keys = <<>> THEN output
    ELSE LET key == Head(keys)
             val == params[key]
             sep == IF output # "" THEN "&" ELSE ""
             head == output \o sep \o encode_uri_strict(key) \o "="
         IN QueryLoop(Tail(keys), params,
                      IF val.some THEN head \o encode_uri_strict(val.v)
                      ELSE head)

\* build_canonical_query_string
build_canonical_query_string(params) ==
    IF DOMAIN params = {} THEN ""
    ELSE QueryLoop(SortedKeys(DOMAIN params), params, "")

\* canonical_values
RECURSIVE canonical_values(_)
canonical_values(values) ==
    IF values = <<>> THEN ""
    ELSE LET st == canonical_values(SubSeq(values, 1, Len(values) - 1))
         IN (IF st # "" THEN st \o "," ELSE st) \o values[Len(values)]

\* The loop of canonical_headers over the sorted keys.
RECURSIVE HeaderLoop(_, _, _)
HeaderLoop(keys, headers, canonical) ==
    IF keys = <<>> THEN canonical
    ELSE LET key == Head(keys)
         IN HeaderLoop(Tail(keys), headers,
                       IF ~StartsWith(key, "x-amz-") THEN canonical
                       ELSE canonical \o key \o ":"
                            \o canonical_values(headers[key]) \o "\n")

\* canonical_headers
canonical_headers(headers) ==
    LET canonical == HeaderLoop(SortedKeys(DOMAIN headers), headers, "")
    IN IF canonical # "" THEN SubSeq(canonical, 1, Len(canonical) - 1)
       ELSE canonical

(***************************************************************************)
(* Time (src/src/signature/ks_time.rs) and credentials                     *)
(* (src/src/credential/mod.rs).  The clock counts the seconds elapsed      *)
(* since 2020-01-01T00:00:00Z, a Wednesday (index 2 counting from Monday), *)
(* and stays inside January 2020.                                          *)
(***************************************************************************)
WeekdayNames ==
    <<"Monday", "Tuesday", "Wednesday", "Thursday", "Friday", "Saturday",
      "Sunday">>

\* OffsetDateTime::now_utc() when the clock reads t.
DateTimeAt(t) ==
    LET minutes == t \div 60
        hours == minutes \div 60
        days == hours \div 24
    IN [weekday |-> WeekdayNames[((days + 2) % 7) + 1],
        day |-> days + 1,
        month |-> 1,
        year |-> 2020,
        hour |-> hours % 24,
        minute |-> minutes % 60,
        second |-> t % 60]

\* Month::from(u8) followed by Display for Month.
MonthAbbrev ==
    <<"Jan", "Feb", "Mar", "Apr", "May", "Jun", "Jul", "Aug", "Sep", "Oct",
      "Nov", "Dec">>

MonthFrom(item) == IF item \in 1..12 THEN MonthAbbrev[item] ELSE MonthAbbrev[1]

\* Variant of rfc1123 that pads the day and the time to two digits.
Pad2(n) == IF n < 10 THEN "0" \o ToDecimal(n) ELSE ToDecimal(n)

rfc1123_padded(date) ==
    SubSeq(date.weekday, 1, 3) \o ", " \o Pad2(date.day) \o " "
        \o MonthFrom(date.month) \o " " \o ToDecimal(date.year) \o " "
        \o Pad2(date.hour) \o ":" \o Pad2(date.minute) \o ":"
        \o Pad2(date.second) \o " GMT"

\* ks_time::rfc1123
rfc1123(date) ==
    SubSeq(date.weekday, 1, 3) \o ", " \o ToDecimal(date.day) \o " "
        \o MonthFrom(date.month) \o " " \o ToDecimal(date.year) \o " "
        \o ToDecimal(date.hour) \o ":" \o ToDecimal(date.minute) \o ":"
        \o ToDecimal(date.second) \o " GMT"

\* AwsCredentials::new(key, secret, None, expires_at)
AwsCredentials(key, secret, expires_at) ==
    [key |-> key, secret |-> secret, expires_at |-> expires_at]

\* Safety margin, in seconds, added to the clock by credentials_are_expired.
ExpiryMargin == 20

\* Variant of credentials_are_expired that counts the instant of equality
\* as expired.
credentials_are_expired_inclusive(creds, t) ==
    IF creds.expires_at.some THEN creds.expires_at.v <= t + ExpiryMargin
    ELSE FALSE

\* AwsCredentials::credentials_are_expired at clock reading t.
credentials_are_expired(creds, t) ==
    IF creds.expires_at.some THEN creds.expires_at.v < t + ExpiryMargin
    ELSE FALSE

\* sign_string: base64(HMAC-SHA1(secret, string_to_sign)).  The keyed hash is
\* kept symbolic: a term that determines, and is determined by, its two
\* arguments.
sign_string(string_to_sign, secret) ==
    "base64(hmac-sha1(" \o secret \o "," \o string_to_sign \o "))"

\* base64::encode(md5::compute(payload)), symbolic in the same way.
Md5Base64(payload) == "base64(md5(" \o payload \o "))"

(***************************************************************************)
(* SignedRequest: header and parameter maps                                *)
(***************************************************************************)
EmptyMap == [k \in {} |-> None]

\* BTreeMap::remove
MapRemove(m, key) == [k \in DOMAIN m \ {key} |-> m[k]]

\* BTreeMap::insert
MapInsert(m, key, val) ==
    [k \in DOMAIN m \cup {key} |-> IF k = key THEN val ELSE m[k]]

\* Variant of remove_header that removes nothing.
remove_header_kept(h, key) == h

\* SignedRequest::remove_header on the header map h.
remove_header(h, key) == MapRemove(h, ToAsciiLowercase(key))

\* SignedRequest::add_header on the header map h.
add_header(h, key, value) ==
    LET key_lower == ToAsciiLowercase(key)
    IN MapInsert(h, key_lower,
                 IF key_lower \in DOMAIN h THEN Append(h[key_lower], value)
                 ELSE <<value>>)

\* BTreeMap::get(key).is_some()
Has(m, key) == key \in DOMAIN m

(***************************************************************************)
(* SignedRequest: state                                                    *)
(***************************************************************************)
VARIABLES
    method,                 \* SignedRequest.method
    service,                \* SignedRequest.service
    region,                 \* SignedRequest.region
    path,                   \* SignedRequest.path
    headers,                \* SignedRequest.headers
    params,                 \* SignedRequest.params
    hostname,               \* SignedRequest.hostname
    payload,                \* SignedRequest.payload
    canonical_query_string, \* SignedRequest.canonical_query_string
    canonical_uri,          \* SignedRequest.canonical_uri
    now,                    \* the system clock read by now_utc()
    stdout,                 \* the two lines printed by the latest signing
    panicked,               \* the thread running sign has panicked
    last_call               \* the latest call on the request: its name and,
                            \* for complement and sign, the call before it,
                            \* the headers it found, the credentials and
                            \* clock reading it was given and its outcome

\* The objects on the response side and the payload reader, which no
\* operation on the request touches.
VARIABLES
    document,               \* the events the reader makes of a response body
    xml_stack,              \* XmlResponse.xml_stack: the events still ahead
    taken,                  \* the tokens Next::next has returned so far
    frame,                  \* the running deserialize_elements call: its
                            \* position, its accumulator, its result
    stream,                 \* ImplAsyncRead.stream: the items still ahead
    buffer,                 \* ImplAsyncRead.buffer
    polled,                 \* the items the stream has yielded so far
    filled                  \* the bytes the reads have delivered so far

response_state == <<document, xml_stack, taken, frame>>

reader_state == <<stream, buffer, polled, filled>>

io_state == <<response_state, reader_state>>

vars ==
    <<method, service, region, path, headers, params, hostname, payload,
      canonical_query_string, canonical_uri, now, stdout, panicked, last_call,
      io_state>>

\* No response is being parsed.
NoResponse ==
    /\ document = <<>>
    /\ xml_stack = <<>>
    /\ taken = <<>>
    /\ frame = [pc |-> "idle"]

\* No payload stream is being read.
NoReader ==
    /\ stream = <<>>
    /\ buffer = ""
    /\ polled = <<>>
    /\ filled = ""

Idle == NoResponse /\ NoReader

request_fields == <<method, service, region, path>>

\* SignedRequestPayload::Buffer / SignedRequestPayload::Stream
Buffer(bytes) == [kind |-> "Buffer", bytes |-> bytes]

Stream(size_hint) == [kind |-> "Stream", size_hint |-> size_hint]

\* SignedRequest::new(method, service, region, path)
New(m, svc, r, p) ==
    /\ method = m
    /\ service = svc
    /\ region = r
    /\ path = p
    /\ headers = EmptyMap
    /\ params = EmptyMap
    /\ hostname = None
    /\ payload = None
    /\ canonical_query_string = ""
    /\ canonical_uri = ""
    /\ now = 0
    /\ stdout = <<>>
    /\ panicked = FALSE
    /\ last_call = [op |-> "new"]

\* A caller-side call other than complement and sign.
Called == last_call' = [op |-> "set"]

(***************************************************************************)
(* SignedRequest: setters                                                  *)
(***************************************************************************)
\* Most values one header key is given by the explored callers.
MaxHeaderValues == 2

Room(key) ==
    LET key_lower == ToAsciiLowercase(key)
    IN Has(headers, key_lower) => Len(headers[key_lower]) < MaxHeaderValues

\* SignedRequest::add_header(key, value), (key, value) drawn from inputs.
AddHeader(inputs) ==
    \E kv \in inputs :
        /\ ~panicked
        /\ Room(kv[1])
        /\ headers' = add_header(headers, kv[1], kv[2])
        /\ Called
        /\ UNCHANGED <<io_state, request_fields, params, hostname, payload,
                       canonical_query_string, canonical_uri, now, stdout,
                       panicked>>

\* SignedRequest::add_optional_header(key, value)
AddOptionalHeader(keys, values) ==
    \E key \in keys, value \in {None} \cup {Some(v) : v \in values} :
        /\ ~panicked
        /\ Room(key)
        /\ headers' = IF value.some THEN add_header(headers, key, value.v)
                      ELSE headers
        /\ Called
        /\ UNCHANGED <<io_state, request_fields, params, hostname, payload,
                       canonical_query_string, canonical_uri, now, stdout,
                       panicked>>

\* SignedRequest::set_content_type(content_type)
SetContentType(types) ==
    \E content_type \in types :
        /\ ~panicked
        /\ Room("content-type")
        /\ headers' = add_header(headers, "content-type", content_type)
        /\ Called
        /\ UNCHANGED <<io_state, request_fields, params, hostname, payload,
                       canonical_query_string, canonical_uri, now, stdout,
                       panicked>>

\* SignedRequest::set_content_md5_header()
SetContentMd5Header ==
    /\ ~panicked
    /\ Room("Content-MD5")
    /\ headers' = IF payload.some /\ payload.v.kind = "Buffer"
                  THEN add_header(headers, "Content-MD5",
                                  Md5Base64(payload.v.bytes))
                  ELSE headers
    /\ Called
    /\ UNCHANGED <<io_state, request_fields, params, hostname, payload,
                   canonical_query_string, canonical_uri, now, stdout,
                   panicked>>

\* SignedRequest::remove_header(key)
RemoveHeader(keys) ==
    \E key \in keys :
        /\ ~panicked
        /\ headers' = remove_header(headers, key)
        /\ Called
        /\ UNCHANGED <<io_state, request_fields, params, hostname, payload,
                       canonical_query_string, canonical_uri, now, stdout,
                       panicked>>

\* SignedRequest::add_param(key, value)
AddParam(inputs) ==
    \E kv \in inputs :
        /\ ~panicked
        /\ params' = MapInsert(params, kv[1], Some(kv[2]))
        /\ Called
        /\ UNCHANGED <<io_state, request_fields, headers, hostname, payload,
                       canonical_query_string, canonical_uri, now, stdout,
                       panicked>>

\* SignedRequest::set_params(params)
SetParams(maps) ==
    \E m \in maps :
        /\ ~panicked
        /\ params' = m
        /\ Called
        /\ UNCHANGED <<io_state, request_fields, headers, hostname, payload,
                       canonical_query_string, canonical_uri, now, stdout,
                       panicked>>

\* SignedRequest::set_hostname(hostname)
SetHostname(hosts) ==
    \E h \in {None} \cup {Some(x) : x \in hosts} :
        /\ ~panicked
        /\ hostname' = h
        /\ Called
        /\ UNCHANGED <<io_state, request_fields, headers, params, payload,
                       canonical_query_string, canonical_uri, now, stdout,
                       panicked>>

\* SignedRequest::set_endpoint_prefix(endpoint_prefix)
SetEndpointPrefix(prefixes) ==
    \E endpoint_prefix \in prefixes :
        /\ ~panicked
        /\ hostname' = Some(build_hostname(endpoint_prefix, region))
        /\ Called
        /\ UNCHANGED <<io_state, request_fields, headers, params, payload,
                       canonical_query_string, canonical_uri, now, stdout,
                       panicked>>

\* SignedRequest::set_payload(payload)
SetPayload(bodies) ==
    \E b \in {None} \cup {Some(x) : x \in bodies} :
        /\ ~panicked
        /\ payload' = IF b.some THEN Some(Buffer(b.v)) ELSE None
        /\ Called
        /\ UNCHANGED <<io_state, request_fields, headers, params, hostname,
                       canonical_query_string, canonical_uri, now, stdout,
                       panicked>>

\* SignedRequest::set_payload_stream(stream), the stream made by
\* ByteStream::new (no size hint) or ByteStream::new_with_size.
SetPayloadStream(sizes) ==
    \E size_hint \in {None} \cup {Some(n) : n \in sizes} :
        /\ ~panicked
        /\ payload' = Some(Stream(size_hint))
        /\ Called
        /\ UNCHANGED <<io_state, request_fields, headers, params, hostname,
                       canonical_query_string, canonical_uri, now, stdout,
                       panicked>>

(***************************************************************************)
(* SignedRequest: complement and sign                                      *)
(***************************************************************************)
\* Variant of hostname that ignores the override.
hostname_of_resolved(override, svc, r) == build_hostname(svc, r)

\* SignedRequest::hostname
hostname_of(override, svc, r) ==
    IF override.some THEN override.v ELSE build_hostname(svc, r)

\* Variant of the `len` of complement that takes no size from a stream.
payload_len_unsized(body) ==
    IF ~body.some THEN Some(0)
    ELSE IF body.v.kind = "Buffer" THEN Some(Len(body.v.bytes))
    ELSE None

\* The `len` computed by complement: Option<usize>.
payload_len(body) ==
    IF ~body.some THEN Some(0)
    ELSE IF body.v.kind = "Buffer" THEN Some(Len(body.v.bytes))
    ELSE body.v.size_hint

\* The header map left by complement.
complement_headers(h, host, len) ==
    LET with_host == add_header(remove_header(h, "Host"), "Host", host)
    IN IF len.some
       THEN add_header(remove_header(with_host, "Content-Length"),
                       "Content-Length", ToDecimal(len.v))
       ELSE with_host

\* The fields written by SignedRequest::complement.
Complemented ==
    [canonical_uri |-> CanonicalUriOf(path, region),
     canonical_query_string |-> build_canonical_query_string(params),
     headers |-> complement_headers(headers,
                                    hostname_of(hostname, service, region),
                                    payload_len(payload))]

\* Variant of is_request_signed that looks the header up under its
\* capitalised name.
is_request_signed_cased(h, p) ==
    Has(p, "signature") \/ Has(h, "Authorization")

\* SignedRequest::is_request_signed
is_request_signed(h, p) == Has(p, "signature") \/ Has(h, "authorization")

\* `uri.strip_prefix("/").unwrap()` panics when the prefix is missing.
StripPrefixPanics(uri) == uri # "" /\ ~StartsWith(uri, "/")

\* Variant of canonical_resource without the single-segment trailing slash.
canonical_resource_plain(canonical, query) ==
    LET uri == IF canonical = "" THEN "/" ELSE canonical
    IN IF query = "" THEN uri ELSE uri \o "?" \o query

\* The canonical resource built by sign from the canonical URI and query.
canonical_resource(canonical, query) ==
    LET stripped == SubSeq(canonical, 2, Len(canonical))
        uris == Split(stripped, "/")
        append == Len(uris) = 1 /\ uris[1] # ""
        joined == "/" \o Join(uris, "/")
        rebuilt == IF canonical = "" THEN canonical
                   ELSE IF append THEN joined \o "/" ELSE joined
        uri == IF rebuilt = "" THEN "/" ELSE rebuilt
    IN IF query = "" THEN uri ELSE uri \o "?" \o query

\* The first value of the header that sign looks up under `key`, or "".
first_value(h, key) ==
    IF Has(h, key) /\ h[key] # <<>> THEN h[key][1] ELSE ""

\* The string-to-sign assembled by sign.
canonical_request(m, md5_str, type_str, formatted_time, canonical, resource) ==
    LET head == m \o "\n" \o md5_str \o "\n" \o type_str \o "\n"
                  \o formatted_time
        with_headers == IF canonical # "" THEN head \o "\n" \o canonical
                        ELSE head
    IN with_headers \o "\n" \o resource

\* The outcome of SignedRequest::sign(creds) after its call of complement
\* has left the fields c.
Signing(c, creds) ==
    LET formatted_time == rfc1123(DateTimeAt(now))
        dated == add_header(remove_header(c.headers, "Date"), "Date",
                            formatted_time)
        resource == canonical_resource(c.canonical_uri,
                                       c.canonical_query_string)
        request == canonical_request(method,
                                     first_value(dated, "Content-Md5"),
                                     first_value(dated, "Content-Type"),
                                     formatted_time,
                                     canonical_headers(dated), resource)
        signature == sign_string(request, creds.secret)
        auth_header == "AWS " \o creds.key \o ":" \o signature
    IN IF is_request_signed(c.headers, params)
          /\ ~credentials_are_expired(creds, now)
       THEN [outcome |-> "skipped", headers |-> c.headers, stdout |-> stdout]
       ELSE IF StripPrefixPanics(c.canonical_uri)
       THEN [outcome |-> "panicked", headers |-> dated, stdout |-> stdout]
       ELSE [outcome |-> "signed",
             headers |-> add_header(remove_header(dated, "Authorization"),
                                    "Authorization", auth_header),
             stdout |-> <<request, auth_header>>]

\* SignedRequest::complement()
Complement ==
    \E c \in {Complemented} :
        /\ ~panicked
        /\ canonical_uri' = c.canonical_uri
        /\ canonical_query_string' = c.canonical_query_string
        /\ headers' = c.headers
        /\ last_call' = [op |-> "complement", prev |-> last_call.op,
                         prior |-> headers]
        /\ UNCHANGED <<io_state, request_fields, params, hostname, payload,
                       now, stdout,
                       panicked>>

\* SignedRequest::sign(creds)
Sign(credentials) ==
    \E creds \in credentials :
        \E c \in {Complemented} :
            \E r \in {Signing(c, creds)} :
                /\ ~panicked
                /\ canonical_uri' = c.canonical_uri
                /\ canonical_query_string' = c.canonical_query_string
                /\ headers' = r.headers
                /\ stdout' = r.stdout
                /\ panicked' = (r.outcome = "panicked")
                /\ last_call' = [op |-> "sign", creds |-> creds,
                                 outcome |-> r.outcome, at |-> now,
                                 prev |-> last_call.op, prior |-> headers]
                /\ UNCHANGED <<io_state, request_fields, params, hostname,
                               payload,
                               now>>

\* Latest clock reading explored.
MaxNow == 2

\* One second passes.
Tick ==
    /\ ~panicked
    /\ now < MaxNow
    /\ now' = now + 1
    /\ UNCHANGED <<io_state, request_fields, headers, params, hostname, payload,
                   canonical_query_string, canonical_uri, stdout, panicked,
                   last_call>>

(***************************************************************************)
(* Specification Spec: a request is signed, resubmitted and signed again   *)
(* (redirects, clock advancing, credentials expiring).                     *)
(***************************************************************************)
LocalEndpoint == "http://localhost:9000/prefix"

Requests ==
    {<<"PUT", "s3", Named("UsEast1"), "/mybucket">>,
     <<"PUT", "s3", Custom("local", LocalEndpoint), "/b/k">>,
     <<"GET", "organizations", Named("CnNorth1"), "">>,
     <<"GET", "s3", Named("EuWest1"), "k">>}

\* Two key pairs; credentials that never expire, that expire 21 seconds
\* after the epoch, and that expired at the epoch.
Credentials ==
    {AwsCredentials("AK", "SK", None),
     AwsCredentials("AK2", "SK2", Some(21)),
     AwsCredentials("AK", "SK", Some(0))}

Init == Idle /\ \E r \in Requests : New(r[1], r[2], r[3], r[4])

DoSetContentType == SetContentType({"text/plain"})

DoAddParam == AddParam({<<"signature", "x">>})

DoSetHostname == SetHostname({"redirect.example.com"})

DoSetEndpointPrefix == SetEndpointPrefix({"bucket"})

DoSign == Sign(Credentials)

Next ==
    \/ DoSetContentType
    \/ DoAddParam
    \/ DoSetHostname
    \/ DoSetEndpointPrefix
    \/ Complement
    \/ DoSign
    \/ Tick

Spec == Init /\ [][Next]_vars

(***************************************************************************)
(* The callers of the next two specifications populate the request and     *)
(* then hand it to complement or sign, as src/src/s3.rs does: no setter is *)
(* called once complement or sign has run.                                 *)
(***************************************************************************)
Populating == last_call.op \in {"new", "set"}

StaticCredentials == {AwsCredentials("AK", "SK", None)}

(***************************************************************************)
(* Specification SpecHeaders: headers of every kind are added, then the    *)
(* request is signed.                                                      *)
(***************************************************************************)
InitHeaders == Idle /\ New("PUT", "s3", Named("UsEast1"), "/b/k")

HdrAddHeader ==
    Populating /\ AddHeader({<<"X-Amz-Meta-A", "">>, <<"X-Amz-Meta-A", "b">>})

HdrAddOptionalHeader ==
    Populating /\ AddOptionalHeader({"x-amz-acl", "Content-MD5"}, {"m"})

HdrSetContentType == Populating /\ SetContentType({"text/plain"})

HdrSetPayload == Populating /\ SetPayload({"hi"})

HdrSetContentMd5Header == Populating /\ SetContentMd5Header

HdrComplement == Populating /\ Complement

HdrSign == Sign(StaticCredentials)

NextHeaders ==
    \/ HdrAddHeader
    \/ HdrAddOptionalHeader
    \/ HdrSetContentType
    \/ HdrSetPayload
    \/ HdrSetContentMd5Header
    \/ HdrComplement
    \/ HdrSign

SpecHeaders == InitHeaders /\ [][NextHeaders]_vars

(***************************************************************************)
(* Specification SpecUri: requests of many paths and regions are given     *)
(* query parameters, then complemented or signed.                          *)
(***************************************************************************)
UriPaths == {"", "/", "//", "/mybucket", "/mybucket/", "/b/k", "/a b/k~", "k"}

UriRegions ==
    {Named("UsEast1"),
     Custom("local", LocalEndpoint),
     Custom("bare", "localhost:9000"),
     Custom("plus", "https://host/p+q")}

UriParamMaps ==
    {EmptyMap,
     [k \in {"acl"} |-> None],
     [k \in {"b", "a/c"} |-> IF k = "b" THEN Some("1") ELSE None]}

InitUri ==
    Idle /\ \E p \in UriPaths, r \in UriRegions : New("PUT", "s3", r, p)

UriAddParam == Populating /\ AddParam({<<"b", "x y">>, <<"B", "2">>})

UriSetParams == Populating /\ SetParams(UriParamMaps)

UriComplement == Populating /\ Complement

UriSign == Sign(StaticCredentials)

NextUri ==
    \/ UriAddParam
    \/ UriSetParams
    \/ UriComplement
    \/ UriSign

SpecUri == InitUri /\ [][NextUri]_vars

(***************************************************************************)
(* Properties of signing, checked under Spec                               *)
(***************************************************************************)
\* The headers that complement and sign write themselves.
Written == {"host", "content-length", "date", "authorization"}

\* sign(creds) was the latest call, completed a signature, and no setter has
\* been called since.
JustSigned == last_call.op = "sign" /\ last_call.outcome = "signed"

\* The request of the PUT bucket scenario, just signed with AK/SK at the
\* epoch, with no payload, no parameter and no header added by the caller.
PutBucketSigned ==
    /\ JustSigned
    /\ last_call.creds = AwsCredentials("AK", "SK", None)
    /\ last_call.at = 0
    /\ method = "PUT" /\ service = "s3" /\ region = Named("UsEast1")
    /\ path = "/mybucket"
    /\ ~payload.some /\ ~hostname.some
    /\ DOMAIN params = {}
    /\ DOMAIN headers = Written

\* C2 as stated: in the PUT bucket scenario sign leaves content-length 0,
\* host s3.us-east-1.amazonaws.com and an Authorization whose signature is
\* taken over "PUT\n\n\n" + D + "\n/mybucket" with
\* D = "Wed, 01 Jan 2020 00:00:00 GMT".
C2_Original ==
    PutBucketSigned =>
        /\ headers["content-length"] = <<"0">>
        /\ headers["host"] = <<"s3.us-east-1.amazonaws.com">>
        /\ headers["authorization"] =
             <<"AWS AK:" \o sign_string(
                 "PUT\n\n\nWed, 01 Jan 2020 00:00:00 GMT\n/mybucket", "SK")>>

\* C2 amended: in the PUT bucket scenario, signed at 2020-01-01T00:00:00Z,
\* sign leaves content-length 0, host s3.us-east-1.amazonaws.com, the Date
\* header "Wed, 1 Jan 2020 0:0:0 GMT" (numbers are not zero-padded), and an
\* Authorization whose signature is taken over
\* "PUT\n\n\n" + that date + "\n/mybucket/" (the single path segment gets a
\* trailing slash); that string is also what sign prints.
C2_PutBucket ==
    PutBucketSigned =>
        /\ headers["content-length"] = <<"0">>
        /\ headers["host"] = <<"s3.us-east-1.amazonaws.com">>
        /\ headers["date"] = <<"Wed, 1 Jan 2020 0:0:0 GMT">>
        /\ headers["authorization"] =
             <<"AWS AK:" \o sign_string(
                 "PUT\n\n\nWed, 1 Jan 2020 0:0:0 GMT\n/mybucket/", "SK")>>
        /\ stdout[1] = "PUT\n\n\nWed, 1 Jan 2020 0:0:0 GMT\n/mybucket/"

C2_Witness == PutBucketSigned

\* The credentials of the latest sign call had not expired when it ran:
\* they carry no expiry, or one at least 20 seconds after the clock reading.
CallUnexpired ==
    \/ ~last_call.creds.expires_at.some
    \/ last_call.creds.expires_at.v >= last_call.at + 20

\* C4: a sign call that directly follows a sign call which left the request
\* signed, made with unexpired credentials, leaves the Authorization and Date
\* headers exactly as it found them, whatever the clock reads and whatever
\* key the credentials carry.
C4_SignTwice ==
    (/\ last_call.op = "sign"
     /\ last_call.prev = "sign"
     /\ "authorization" \in DOMAIN last_call.prior
     /\ CallUnexpired)
    => /\ last_call.outcome = "skipped"
       /\ "authorization" \in DOMAIN headers
       /\ headers["authorization"] = last_call.prior["authorization"]
       /\ "date" \in DOMAIN headers
       /\ headers["date"] = last_call.prior["date"]

\* The second sign ran later than the first (the Date header is not the
\* rendering of the second call's clock reading) and with another key.
C4_Witness ==
    /\ last_call.op = "sign"
    /\ last_call.prev = "sign"
    /\ "authorization" \in DOMAIN last_call.prior
    /\ CallUnexpired
    /\ headers["date"] # <<rfc1123(DateTimeAt(last_call.at))>>
    /\ StartsWith(headers["authorization"][1], "AWS AK:")
    /\ last_call.creds.key = "AK2"

\* The step is a call of sign, with credentials that are not expired, on a
\* request that carries a signature parameter or an authorization header.
SignOfSignedStep ==
    /\ last_call'.op = "sign"
    /\ now' = now
    /\ last_call'.prior = headers
    /\ ("signature" \in DOMAIN params \/ "authorization" \in DOMAIN headers)
    /\ \/ ~last_call'.creds.expires_at.some
       \/ last_call'.creds.expires_at.v >= now + 20

\* C5 as stated: such a call changes no field of the request.
C5_Original ==
    [][SignOfSignedStep =>
          UNCHANGED <<method, service, region, path, headers, params,
                      hostname, payload, canonical_query_string,
                      canonical_uri>>]_vars

\* C5 amended: such a call changes nothing but what complement recomputes:
\* the host and content-length headers and the two canonical fields.  Every
\* other header (authorization and date included), the parameters, the
\* payload, the hostname override and the printed output stay as they were.
C5_SignedNoop ==
    [][SignOfSignedStep =>
          /\ UNCHANGED <<method, service, region, path, params, hostname,
                         payload, stdout, panicked>>
          /\ DOMAIN headers' \ {"host", "content-length"}
               = DOMAIN headers \ {"host", "content-length"}
          /\ \A k \in DOMAIN headers \ {"host", "content-length"} :
                headers'[k] = headers[k]]_vars

\* A presigned request (signature parameter, no authorization header) has
\* been through sign with unexpired credentials, and the call was skipped
\* although it rewrote the host header.
C5_Witness ==
    /\ last_call.op = "sign"
    /\ "signature" \in DOMAIN params
    /\ CallUnexpired
    /\ last_call.outcome = "skipped"
    /\ "authorization" \notin DOMAIN headers
    /\ "content-type" \in DOMAIN headers
    /\ "host" \in DOMAIN last_call.prior
    /\ headers["host"] # last_call.prior["host"]

\* C6 as stated: after a sign call that returned, the authorization header
\* and the date header each hold exactly one value.
C6_Original ==
    (last_call.op = "sign" /\ ~panicked) =>
        /\ "authorization" \in DOMAIN headers
        /\ Len(headers["authorization"]) = 1
        /\ "date" \in DOMAIN headers
        /\ Len(headers["date"]) = 1

\* C6 amended: the authorization header and the date header never hold more
\* than one value, and each holds exactly one after every sign call that was
\* not skipped and returned; a re-sign replaces the old values.  (A skipped
\* sign of a presigned request leaves both headers absent.)
C6_SingleValue ==
    /\ "authorization" \in DOMAIN headers => Len(headers["authorization"]) = 1
    /\ "date" \in DOMAIN headers => Len(headers["date"]) = 1
    /\ JustSigned =>
          /\ "authorization" \in DOMAIN headers
          /\ "date" \in DOMAIN headers
          /\ headers["date"] = <<rfc1123(DateTimeAt(last_call.at))>>

\* A request that was already signed has been signed again with expired
\* credentials, at a later clock reading.
C6_Witness ==
    /\ JustSigned
    /\ ~CallUnexpired
    /\ "authorization" \in DOMAIN last_call.prior
    /\ last_call.prior["date"] # headers["date"]
    /\ last_call.prior["authorization"] # headers["authorization"]

\* The hostname each explored request resolves to without an override.
ResolvedHost ==
    IF region = Custom("local", LocalEndpoint) THEN "localhost:9000"
    ELSE IF service = "organizations" /\ region = Named("CnNorth1")
    THEN "organizations.cn-northwest-1.amazonaws.com.cn"
    ELSE IF service = "s3" /\ region = Named("UsEast1")
    THEN "s3.us-east-1.amazonaws.com"
    ELSE "s3.eu-west-1.amazonaws.com"

\* C10: after every complement or sign call the host header holds exactly one
\* value: the hostname override when one is set, otherwise the hostname
\* resolved from the service and region.
C10_HostHeader ==
    last_call.op \in {"complement", "sign"} =>
        /\ "host" \in DOMAIN headers
        /\ headers["host"] =
             <<IF hostname.some THEN hostname.v ELSE ResolvedHost>>

\* A signed request was given another hostname (a redirect) and signed
\* again: the host header found by the call differs from the one it left.
C10_Witness ==
    /\ last_call.op = "sign"
    /\ "authorization" \in DOMAIN last_call.prior
    /\ "host" \in DOMAIN last_call.prior
    /\ last_call.prior["host"] # headers["host"]
    /\ hostname.some

(***************************************************************************)
(* Properties of the string-to-sign, checked under SpecHeaders             *)
(***************************************************************************)
\* The lines of the string-to-sign printed by the latest signing.
SignedLines == Split(stdout[1], "\n")

\* The first value of a header of the request, "" when it is absent.
FirstOf(key) == IF key \in DOMAIN headers THEN headers[key][1] ELSE ""

\* C1: the second line of the string-to-sign is the first value of the
\* Content-MD5 header and the third line the first value of the Content-Type
\* header, as set through the normalizing accessors; each line is empty only
\* when its header is absent.
C1_ContentLines ==
    JustSigned =>
        /\ SignedLines[2] = FirstOf("content-md5")
        /\ SignedLines[3] = FirstOf("content-type")

\* The header keys that start with the metadata prefix.
MetadataKeys ==
    {k \in DOMAIN headers : Len(k) >= 6 /\ SubSeq(k, 1, 6) = "x-amz-"}

\* C7: the canonical header block of the string-to-sign (its lines after the
\* date and before the resource) has one line key:v1,v2,... for each
\* metadata-prefixed header key and for no other key, in ascending key order,
\* the values comma-joined in insertion order; it is empty when there is no
\* such header.
C7_CanonicalHeaders ==
    JustSigned =>
        SubSeq(SignedLines, 5, Len(SignedLines) - 1) =
            [i \in 1..Cardinality(MetadataKeys) |->
                LET k == SortedKeys(MetadataKeys)[i]
                IN k \o ":" \o Join(headers[k], ",")]

(***************************************************************************)
(* Properties of the canonical forms, checked under SpecUri                *)
(***************************************************************************)
\* complement has run (alone or inside sign) and no setter since.
Canonicalized == last_call.op \in {"complement", "sign"}

Slashes(s) == Cardinality({i \in 1..Len(s) : CharAt(s, i) = "/"})

\* The canonical URI with a trailing slash added when it is one non-empty
\* segment, "/" when it is empty or "/".
ResourcePath ==
    IF canonical_uri \in {"", "/"} THEN "/"
    ELSE IF Slashes(canonical_uri) = 1 THEN canonical_uri \o "/"
    ELSE canonical_uri

\* C3: the canonical resource that ends the string-to-sign is the canonical
\* URI, with a trailing slash appended exactly when it is a single non-empty
\* segment and "/" when it is empty or "/", followed by "?" and the canonical
\* query string if and only if that string is not empty.
C3_CanonicalResource ==
    JustSigned =>
        stdout[1] = "PUT\n\n\n" \o headers["date"][1] \o "\n" \o ResourcePath
                      \o (IF canonical_query_string = "" THEN ""
                          ELSE "?" \o canonical_query_string)

\* A single-segment URI was signed together with a query string, and so was
\* (in another run) a two-segment one; this is the former.
C3_Witness ==
    /\ JustSigned
    /\ canonical_uri = "/mybucket"
    /\ canonical_query_string # ""
    /\ DOMAIN params = {"acl"}

\* encode(key)=encode(value), or encode(key) alone for an absent value.
QueryItem(key) ==
    IF params[key].some
    THEN encode_uri_strict(key) \o "=" \o encode_uri_strict(params[key].v)
    ELSE encode_uri_strict(key)

\* C8: the canonical query string is the "&"-separated list of the
\* parameters in ascending key order, each encode(key)=encode(value), or
\* encode(key) alone with no "=" when the value is absent; "" for no parameter.
C8_CanonicalQuery ==
    Canonicalized =>
        canonical_query_string =
            Join([i \in 1..Cardinality(DOMAIN params) |->
                     QueryItem(SortedKeys(DOMAIN params)[i])], "&")

\* The path component of the endpoint of each explored region, "" if none.
EndpointPath ==
    IF region = Custom("local", LocalEndpoint) THEN "/prefix"
    ELSE IF region = Custom("plus", "https://host/p+q") THEN "/p+q"
    ELSE ""

\* The bytes the strict path encoding keeps.
PathKept ==
    "ABCDEFGHIJKLMNOPQRSTUVWXYZabcdefghijklmnopqrstuvwxyz0123456789-._~/"

RECURSIVE PathEncoding(_)
PathEncoding(str) ==
    IF str = "" THEN ""
    ELSE (IF \E i \in 1..Len(PathKept) : CharAt(PathKept, i) = Head(str)
          THEN Head(str)
          ELSE "%" \o CharAt(HexDigits, (Ord(Head(str)) \div 16) + 1)
                   \o CharAt(HexDigits, (Ord(Head(str)) % 16) + 1))
         \o PathEncoding(Tail(str))

\* C9 as stated: the canonical URI is the strict percent-encoding of the
\* request path, preceded by the path component of a Custom endpoint; an
\* empty request path canonicalizes to "/".
C9_Original ==
    Canonicalized =>
        IF path = "" THEN canonical_uri \in {"/", EndpointPath \o "/"}
        ELSE canonical_uri = EndpointPath \o PathEncoding(path)

\* C9 amended: for a non-empty request path the canonical URI is the strict
\* percent-encoding of the Custom endpoint's path component followed by the
\* request path, the two encoded together; for an empty request path it is
\* the endpoint's path component as it stands, not encoded, when the endpoint
\* has one, and "/" otherwise.
C9_CanonicalUri ==
    Canonicalized =>
        canonical_uri =
            IF path # "" THEN PathEncoding(EndpointPath \o path)
            ELSE IF EndpointPath # "" THEN EndpointPath
            ELSE "/"

\* The endpoint http://localhost:9000/prefix with the path /b/k.
C9_Witness ==
    /\ Canonicalized
    /\ region = Custom("local", LocalEndpoint)
    /\ path = "/b/k"
    /\ canonical_uri = "/prefix/b/k"

(***************************************************************************)
(* Specification SpecPayload: the payload of a request is set, replaced    *)
(* and removed, the caller adds and removes its own Content-Length, and    *)
(* the request is complemented again and again.                            *)
(***************************************************************************)
InitPayload == Idle /\ New("PUT", "s3", Named("UsEast1"), "/b/k")

PayAddHeader ==
    AddHeader({<<"Content-Length", "7">>, <<"content-length", "9">>})

PayRemoveHeader == RemoveHeader({"Content-Length"})

PaySetPayload == SetPayload({"", "hi", "hello"})

PaySetPayloadStream == SetPayloadStream({0, 5, 12})

NextPayload ==
    \/ PayAddHeader
    \/ PayRemoveHeader
    \/ PaySetPayload
    \/ PaySetPayloadStream
    \/ Complement

SpecPayload == InitPayload /\ [][NextPayload]_vars

(***************************************************************************)
(* Properties of complement, checked under SpecPayload                     *)
(***************************************************************************)
\* complement was the latest call on the request.
JustComplemented == last_call.op = "complement"

\* The content-length values of a header map, <<>> when the key is absent.
ContentLengthOf(h) ==
    IF "content-length" \in DOMAIN h THEN h["content-length"] ELSE <<>>

\* The header is present in both maps or absent from both.
SamePresence(h, g) ==
    ("content-length" \in DOMAIN h) <=> ("content-length" \in DOMAIN g)

\* C11: after complement the content-length header holds exactly the one
\* value "0" when there is no payload, the byte length of a buffered payload,
\* the declared size of a stream that has a size hint, and for a stream
\* without a size hint it is as the call found it, absent or with the
\* caller's values.
C11_ContentLength ==
    JustComplemented =>
        CASE payload = None ->
                ContentLengthOf(headers) = <<"0">>
          [] payload = Some(Buffer("")) ->
                ContentLengthOf(headers) = <<"0">>
          [] payload = Some(Buffer("hi")) ->
                ContentLengthOf(headers) = <<"2">>
          [] payload = Some(Buffer("hello")) ->
                ContentLengthOf(headers) = <<"5">>
          [] payload = Some(Stream(Some(0))) ->
                ContentLengthOf(headers) = <<"0">>
          [] payload = Some(Stream(Some(5))) ->
                ContentLengthOf(headers) = <<"5">>
          [] payload = Some(Stream(Some(12))) ->
                ContentLengthOf(headers) = <<"12">>
          [] payload = Some(Stream(None)) ->
                /\ ContentLengthOf(headers) = ContentLengthOf(last_call.prior)
                /\ SamePresence(headers, last_call.prior)
          [] OTHER -> FALSE

\* A sized stream replaced the caller's two values by its declared size, and
\* an unsized stream kept them.
C11_Witness ==
    /\ JustComplemented
    /\ \/ /\ payload = Some(Stream(Some(12)))
          /\ Len(ContentLengthOf(last_call.prior)) = 2
       \/ /\ payload = Some(Stream(None))
          /\ ContentLengthOf(headers) = <<"7", "9">>

(***************************************************************************)
(* Properties of credential expiry, checked under Spec                     *)
(***************************************************************************)
\* sign was the latest call and found the request carrying an authorization
\* header, so that whether it signed again was decided by the expiry test.
SignOfSigned == last_call.op = "sign" /\ Has(last_call.prior, "authorization")

\* C12: credentials with an expiry timestamp e are treated as expired exactly
\* when now + 20 seconds >= e, the instant of equality included, and
\* credentials without an expiry timestamp never are: a signed request is
\* signed again exactly with such credentials.
C12_Expiry ==
    SignOfSigned =>
        LET e == last_call.creds.expires_at
        IN (last_call.outcome # "skipped")
               <=> (e.some /\ last_call.at + 20 >= e.v)

(***************************************************************************)
(* Specification SpecHostname: requests for every service of the           *)
(* exception table and two others, in every named region and in custom     *)
(* regions, are complemented and asked for their signing region.           *)
(***************************************************************************)
\* Variant of region_for_service that always answers the caller's region.
region_for_service_caller(svc, r) == Name(r)

\* SignedRequest::region_for_service
region_for_service(svc, r) ==
    IF svc = "organizations"
    THEN IF IsChina(r) THEN RegionName["CnNorthwest1"]
         ELSE IF IsGov(r) THEN RegionName["UsGovWest1"]
         ELSE RegionName["UsEast1"]
    ELSE Name(r)

\* SignedRequest::region_for_service(), its result observed.
RegionForService ==
    /\ ~panicked
    /\ last_call' = [op |-> "region_for_service",
                     returned |-> region_for_service(service, region)]
    /\ UNCHANGED <<io_state, request_fields, headers, params, hostname, payload,
                   canonical_query_string, canonical_uri, now, stdout,
                   panicked>>

HostServices ==
    {"organizations", "iam", "chime", "cloudfront", "importexport", "s3",
     "route53", "sdb", "ec2", "nosuchservice"}

CustomRegions ==
    {Custom("local", LocalEndpoint),
     Custom("bare", "localhost:9000"),
     Custom("plus", "https://host/p+q"),
     Custom("ks3", "https://ks3-cn-beijing.ksyuncs.com"),
     Custom("deep", "http://h:1/a/b"),
     Custom("late", "host/a://b")}

HostRegions == {Named(v) : v \in NamedVariants} \cup CustomRegions

InitHostname ==
    /\ Idle
    /\ \E svc \in HostServices, r \in HostRegions : New("GET", svc, r, "/")

NextHostname ==
    \/ Complement
    \/ RegionForService

SpecHostname == InitHostname /\ [][NextHostname]_vars

(***************************************************************************)
(* Properties of hostname resolution, checked under SpecHostname           *)
(***************************************************************************)
\* complement has written the host header of a request without override.
Resolved == Has(headers, "host") /\ ~hostname.some

\* The custom endpoints with scheme and path taken away, by region name.
Stripped ==
    [local |-> "localhost:9000", bare |-> "localhost:9000", plus |-> "host",
     ks3 |-> "ks3-cn-beijing.ksyuncs.com", deep |-> "h:1", late |-> "b"]

\* C13: for a Custom region the resolved hostname is the endpoint without
\* its scheme prefix (all up to and including "://") and without everything
\* from the first following "/" on, whatever the service, those of the
\* exception table included.
C13_CustomHostname ==
    Resolved /\ IsCustom(region) => headers["host"] = <<Stripped[region.name]>>

\* http://localhost:9000/prefix has resolved to localhost:9000 for a service
\* of the exception table.
C13_Witness ==
    /\ Resolved
    /\ region = Custom("local", LocalEndpoint)
    /\ service = "organizations"
    /\ headers["host"] = <<"localhost:9000">>

\* The request is in a named region and complement has resolved its host.
ResolvedNamed == Resolved /\ ~IsCustom(region)

ChinaNames == {"cn-north-1", "cn-northwest-1"}

GovNames == {"us-gov-east-1", "us-gov-west-1"}

Suffix(name) ==
    IF name \in ChinaNames THEN "amazonaws.com.cn" ELSE "amazonaws.com"

\* {service}.{region name}.{suffix}
Regional(svc, name) == svc \o "." \o name \o "." \o Suffix(name)

\* The services the regional pattern is not stated for.
SingleEndpoint == {"iam", "cloudfront", "importexport", "route53"}

SdbDefault == service = "sdb" /\ Name(region) = "us-east-1"

\* C14: in every named region, every service except organizations, iam,
\* cloudfront, importexport, route53 and sdb in us-east-1 resolves to
\* {service}.{region name}.{suffix}, the suffix amazonaws.com.cn exactly in
\* cn-north-1 and cn-northwest-1 and amazonaws.com elsewhere, unrecognized
\* services included.
C14_RegionalHostname ==
    /\ ResolvedNamed
    /\ service \notin SingleEndpoint \cup {"organizations"}
    /\ ~SdbDefault
    => headers["host"] = <<Regional(service, Name(region))>>

\* The one hostname of each single-endpoint service.
FixedHost ==
    [iam |-> "iam.amazonaws.com", cloudfront |-> "cloudfront.amazonaws.com",
     importexport |-> "importexport.amazonaws.com",
     route53 |-> "route53.amazonaws.com"]

\* C15: iam, cloudfront, importexport and route53 each resolve to one fixed
\* hostname, the same in every named region, and sdb resolves to
\* sdb.amazonaws.com in us-east-1.
C15_SingleEndpoint ==
    ResolvedNamed =>
        /\ service \in DOMAIN FixedHost =>
               headers["host"] = <<FixedHost[service]>>
        /\ SdbDefault => headers["host"] = <<"sdb.amazonaws.com">>

\* The signing region of organizations for a caller's region name.
Pinned(name) ==
    IF name \in ChinaNames THEN "cn-northwest-1"
    ELSE IF name \in GovNames THEN "us-gov-west-1"
    ELSE "us-east-1"

\* region_for_service was the latest call on the request.
AskedRegion == last_call.op = "region_for_service"

\* C16: for organizations in a named region the signing region is
\* cn-northwest-1 in the China regions, us-gov-west-1 in the government
\* regions and us-east-1 elsewhere, and the resolved hostname is the
\* organizations endpoint of that signing region; for every other service
\* the signing region is the caller's region name.
C16_SigningRegion ==
    AskedRegion =>
        /\ service = "organizations" /\ ~IsCustom(region) =>
               /\ last_call.returned = Pinned(Name(region))
               /\ Resolved =>
                      headers["host"] =
                          <<Regional("organizations", last_call.returned)>>
        /\ service # "organizations" => last_call.returned = Name(region)

\* organizations in us-gov-east-1 and in cn-north-1 are signed for, and
\* resolved to, the pinned region.
C16_Witness ==
    /\ AskedRegion
    /\ Resolved
    /\ service = "organizations"
    /\ \/ /\ region = Named("UsGovEast1")
          /\ last_call.returned = "us-gov-west-1"
          /\ headers["host"] = <<"organizations.us-gov-west-1.amazonaws.com">>
       \/ /\ region = Named("CnNorth1")
          /\ last_call.returned = "cn-northwest-1"
          /\ headers["host"] =
                 <<"organizations.cn-northwest-1.amazonaws.com.cn">>

(***************************************************************************)
(* Region parsing and the default region (src/src/signature/region.rs)     *)
(***************************************************************************)
\* Result<Region, ParseRegionError>
Ok(v) == [ok |-> TRUE, v |-> v]

Err(message) == [ok |-> FALSE, message |-> message]

\* The arms of the match in Region::from_str: the two accepted spellings
\* and the variant they give.
ParseArms ==
    {<<"ap-east-1", "apeast1", "ApEast1">>,
     <<"ap-northeast-1", "apnortheast1", "ApNortheast1">>,
     <<"ap-northeast-2", "apnortheast2", "ApNortheast2">>,
     <<"ap-northeast-3", "apnortheast3", "ApNortheast3">>,
     <<"ap-south-1", "apsouth1", "ApSouth1">>,
     <<"ap-southeast-1", "apsoutheast1", "ApSoutheast1">>,
     <<"ap-southeast-2", "apsoutheast2", "ApSoutheast2">>,
     <<"ca-central-1", "cacentral1", "CaCentral1">>,
     <<"eu-central-1", "eucentral1", "EuCentral1">>,
     <<"eu-west-1", "euwest1", "EuWest1">>,
     <<"eu-west-2", "euwest2", "EuWest2">>,
     <<"eu-west-3", "euwest3", "EuWest3">>,
     <<"eu-north-1", "eunorth1", "EuNorth1">>,
     <<"eu-south-1", "eusouth1", "EuSouth1">>,
     <<"me-south-1", "mesouth1", "MeSouth1">>,
     <<"sa-east-1", "saeast1", "SaEast1">>,
     <<"us-east-1", "useast1", "UsEast1">>,
     <<"us-east-2", "useast2", "UsEast2">>,
     <<"us-west-1", "uswest1", "UsWest1">>,
     <<"us-west-2", "uswest2", "UsWest2">>,
     <<"us-gov-east-1", "usgoveast1", "UsGovEast1">>,
     <<"us-gov-west-1", "usgovwest1", "UsGovWest1">>,
     <<"cn-north-1", "cnnorth1", "CnNorth1">>,
     <<"cn-northwest-1", "cnnorthwest1", "CnNorthwest1">>,
     <<"af-south-1", "afsouth1", "AfSouth1">>}

\* ParseRegionError::new(input)
ParseRegionError(input) == Err("Not a valid AWS region: " \o input)

\* Variant of from_str that accepts the compact spelling only.
from_str_compact(s) ==
    LET v == ToAsciiLowercase(s)
        arms == {a \in ParseArms : v = a[2]}
    IN IF arms = {} THEN ParseRegionError(v)
       ELSE Ok(Named((CHOOSE a \in arms : TRUE)[3]))

\* Region::from_str: the input is lowercased and matched against the arms.
from_str(s) ==
    LET v == ToAsciiLowercase(s)
        arms == {a \in ParseArms : v = a[1] \/ v = a[2]}
    IN IF arms = {} THEN ParseRegionError(v)
       ELSE Ok(Named((CHOOSE a \in arms : TRUE)[3]))

\* Result::unwrap_or(Region::UsEast1)
unwrap_or_UsEast1(result) == IF result.ok THEN result.v ELSE Named("UsEast1")

\* std::env::var: the value of a variable, or the error of a variable that
\* is not set or whose value is not valid Unicode.
NotPresent == Err("NotPresent")

NotUnicode == Err("NotUnicode")

\* Variant of Region::default that reads AWS_REGION before
\* AWS_DEFAULT_REGION.
DefaultRegionSwapped(env) ==
    LET var == IF env.AWS_REGION.ok THEN env.AWS_REGION
               ELSE env.AWS_DEFAULT_REGION
    IN IF var.ok THEN unwrap_or_UsEast1(from_str(var.v))
       ELSE IF env.profile.ok /\ env.profile.v.some
       THEN unwrap_or_UsEast1(from_str(env.profile.v.v))
       ELSE Named("UsEast1")

\* Region::default in the environment env: the two variables and the result
\* of ProfileProvider::region().
DefaultRegion(env) ==
    LET var == IF env.AWS_DEFAULT_REGION.ok THEN env.AWS_DEFAULT_REGION
               ELSE env.AWS_REGION
    IN IF var.ok THEN unwrap_or_UsEast1(from_str(var.v))
       ELSE IF env.profile.ok /\ env.profile.v.some
       THEN unwrap_or_UsEast1(from_str(env.profile.v.v))
       ELSE Named("UsEast1")

(***************************************************************************)
(* Specification SpecRegion: requests in every named region; the name of   *)
(* the request's region and other strings are parsed, and the default      *)
(* region is built in many environments.                                   *)
(***************************************************************************)
RegionInputs ==
    {"EU-West-1", "euwest1", "UsGovWest1", "us_east_1", "us-east-1 ", "",
     "cn-north", "Custom"}

Environments ==
    [AWS_DEFAULT_REGION : {NotPresent, NotUnicode, Ok("eu-west-1"),
                           Ok("bogus")},
     AWS_REGION : {NotPresent, Ok("cn-north-1"), Ok("")},
     profile : {Err("config"), Ok(None), Ok(Some("us-west-2")),
                Ok(Some("nowhere"))}]

InitRegion ==
    Idle /\ \E v \in NamedVariants : New("GET", "s3", Named(v), "/")

\* Unchanged by parsing and by building the default region.
request_state ==
    <<request_fields, headers, params, hostname, payload,
      canonical_query_string, canonical_uri, now, stdout, panicked, io_state>>

\* Region::from_str(self.region.name()), its result observed.
ParseName ==
    /\ last_call' = [op |-> "from_str", input |-> Name(region),
                     returned |-> from_str(Name(region))]
    /\ UNCHANGED request_state

\* Region::from_str(s), its result observed.
FromStr ==
    \E s \in RegionInputs :
        /\ last_call' = [op |-> "from_str", input |-> s,
                         returned |-> from_str(s)]
        /\ UNCHANGED request_state

\* Region::default(), its result observed.
Default ==
    \E env \in Environments :
        /\ last_call' = [op |-> "default", env |-> env,
                         returned |-> DefaultRegion(env)]
        /\ UNCHANGED request_state

NextRegion ==
    \/ ParseName
    \/ FromStr
    \/ Default

SpecRegion == InitRegion /\ [][NextRegion]_vars

(***************************************************************************)
(* Properties of regions, checked under SpecRegion                         *)
(***************************************************************************)
\* The name of the request's region was the latest string parsed.
ParsedOwnName == last_call.op = "from_str" /\ last_call.input = Name(region)

\* C17: parsing the name of a named region yields that region again, and no
\* other named region has the same name.
C17_RoundTrip ==
    ParsedOwnName =>
        /\ last_call.returned = Ok(region)
        /\ \A v \in NamedVariants :
               RegionName[v] = Name(region) => Named(v) = region

\* cn-northwest-1, whose name begins like cn-north-1's, has parsed to itself.
C17_Witness ==
    /\ ParsedOwnName
    /\ region = Named("CnNorthwest1")
    /\ last_call.input = "cn-northwest-1"
    /\ last_call.returned = Ok(Named("CnNorthwest1"))

\* Region::default was the latest call.
BuiltDefault == last_call.op = "default"

\* The region names given as values in Environments, and their regions.
ValidNames ==
    ("eu-west-1" :> Named("EuWest1")) @@ ("cn-north-1" :> Named("CnNorth1"))
        @@ ("us-west-2" :> Named("UsWest2"))

\* The value of the first source that has one, in the order
\* AWS_DEFAULT_REGION, AWS_REGION, profile; a variable that cannot be read
\* as text counts as absent, like one that is not set.
FirstSource(env) ==
    IF env.AWS_DEFAULT_REGION \notin {NotPresent, NotUnicode}
    THEN Some(env.AWS_DEFAULT_REGION.v)
    ELSE IF env.AWS_REGION \notin {NotPresent, NotUnicode}
    THEN Some(env.AWS_REGION.v)
    ELSE IF env.profile \in {Ok(Some(n)) : n \in {"us-west-2", "nowhere"}}
    THEN Some(env.profile.v.v)
    ELSE None

\* C18: the default region is taken from AWS_DEFAULT_REGION, else from
\* AWS_REGION, else from the profile, else it is us-east-1; an absent source
\* falls through to the next, and a value that is present but is no region
\* name gives us-east-1 without looking further.
C18_DefaultRegion ==
    BuiltDefault =>
        LET source == FirstSource(last_call.env)
        IN last_call.returned =
               IF source.some /\ source.v \in DOMAIN ValidNames
               THEN ValidNames[source.v]
               ELSE Named("UsEast1")

\* An invalid AWS_DEFAULT_REGION has hidden a valid AWS_REGION, and an unset
\* AWS_DEFAULT_REGION has let AWS_REGION decide.
C18_Witness ==
    /\ BuiltDefault
    /\ last_call.env.AWS_REGION = Ok("cn-north-1")
    /\ \/ /\ last_call.env.AWS_DEFAULT_REGION = Ok("bogus")
          /\ last_call.returned = Named("UsEast1")
       \/ /\ last_call.env.AWS_DEFAULT_REGION = NotPresent
          /\ last_call.returned = Named("CnNorth1")

(***************************************************************************)
(* XML events and the cursor over them (src/src/core/proto/xml/util.rs)    *)
(***************************************************************************)
\* xml::reader::XmlEvent, and the error an event reader yields in place of
\* an event; after an error the reader yields nothing more.
StartDocument == [kind |-> "StartDocument", name |-> "", data |-> ""]

EndDocument == [kind |-> "EndDocument", name |-> "", data |-> ""]

\* XmlEvent::StartElement { name, attributes, .. }: the local name and the
\* attributes as <<local name, value>> pairs in document order.
StartElementWith(name, attributes) ==
    [kind |-> "StartElement", name |-> name, data |-> "",
     attributes |-> attributes]

StartElement(name) == StartElementWith(name, <<>>)

EndElement(name) == [kind |-> "EndElement", name |-> name, data |-> ""]

Characters(data) == [kind |-> "Characters", name |-> "", data |-> data]

CData(data) == [kind |-> "CData", name |-> "", data |-> data]

Whitespace(data) == [kind |-> "Whitespace", name |-> "", data |-> data]

ReaderError == [kind |-> "Error", name |-> "", data |-> "reader error"]

\* `let x = v;` followed by the code F that uses x: v is computed once.
Let(v, F(_)) == CHOOSE r \in {F(x) : x \in {v}} : TRUE

\* The loop of Peek::peek and Next::next of XmlResponse that drops
\* whitespace events.
RECURSIVE SkipWhitespace(_)
SkipWhitespace(stack) ==
    IF stack # <<>> /\ Head(stack).kind = "Whitespace"
    THEN Let(Tail(stack), LAMBDA rest : SkipWhitespace(rest))
    ELSE stack

\* Peek::peek without its loop: Peekable::peek alone.
peek_unskipped(stack) ==
    [token |-> IF stack = <<>> THEN None ELSE Some(Head(stack)),
     stack |-> stack]

\* Peek::peek for XmlResponse: the token ahead, and the stack it leaves.
peek(stack) ==
    Let(SkipWhitespace(stack), LAMBDA s :
        [token |-> IF s = <<>> THEN None ELSE Some(Head(s)), stack |-> s])

\* Next::next for XmlResponse: the token taken, and the stack it leaves.
next(stack) ==
    Let(SkipWhitespace(stack), LAMBDA s :
        IF s = <<>> THEN [token |-> None, stack |-> s]
        ELSE [token |-> Some(Head(s)), stack |-> Tail(s)])

\* Whether an Option of token holds an event of the given kind.
IsKind(token, kind) == token.some /\ token.v.kind = kind

\* The {:?} rendering of a token in an error message: the variant with the
\* tag name or the text it holds.
Debug(token) ==
    IF ~token.some THEN "None"
    ELSE IF token.v.kind = "Error" THEN "Some(Err(" \o token.v.data \o "))"
    ELSE "Some(Ok(" \o token.v.kind \o "(" \o token.v.name \o token.v.data
             \o ")))"

\* XmlParseError::new(msg), with the stack the failed call leaves.
Failed(msg, stack) == [ok |-> FALSE, message |-> msg, stack |-> stack]

Done(v, stack) == [ok |-> TRUE, v |-> v, stack |-> stack]

\* start_element that takes the token only when it is the expected tag.
start_element_kept(element_name, stack) ==
    Let(peek(stack), LAMBDA p :
        IF IsKind(p.token, "StartElement") /\ p.token.v.name = element_name
        THEN Done(<<>>, next(p.stack).stack)
        ELSE Failed("START Expected " \o element_name \o " got "
                        \o Debug(p.token), p.stack))

\* The loop of start_element that inserts each attribute into attr_map.
RECURSIVE AttrMap(_, _)
AttrMap(attr_map, attributes) ==
    IF attributes = <<>> THEN attr_map
    ELSE Let(Head(attributes), LAMBDA attr :
             AttrMap([k \in DOMAIN attr_map \cup {attr[1]} |->
                         IF k = attr[1] THEN attr[2] ELSE attr_map[k]],
                     Tail(attributes)))

\* start_element(element_name, stack)
start_element(element_name, stack) ==
    Let(next(stack), LAMBDA n :
        IF IsKind(n.token, "StartElement")
        THEN IF n.token.v.name = element_name
             THEN Done(AttrMap(EmptyMap, n.token.v.attributes), n.stack)
             ELSE Failed("START Expected " \o element_name \o " got "
                             \o n.token.v.name, n.stack)
        ELSE Failed("Expected StartElement " \o element_name \o " got "
                        \o Debug(n.token), n.stack))

\* end_element(element_name, stack)
end_element(element_name, stack) ==
    Let(next(stack), LAMBDA n :
        IF IsKind(n.token, "EndElement")
        THEN IF n.token.v.name = element_name THEN Done(<<>>, n.stack)
             ELSE Failed("END Expected " \o element_name \o " got "
                             \o n.token.v.name, n.stack)
        ELSE Failed("Expected EndElement " \o element_name \o " got "
                        \o Debug(n.token), n.stack))

\* characters without its look ahead for an end-tag.
characters_eager(stack) ==
    Let(next(stack), LAMBDA n :
        IF IsKind(n.token, "Characters") \/ IsKind(n.token, "CData")
        THEN Done(n.token.v.data, n.stack)
        ELSE Failed("Expected characters", n.stack))

\* characters(stack)
characters(stack) ==
    Let(peek(stack), LAMBDA current :
        IF IsKind(current.token, "EndElement") THEN Done("", current.stack)
        ELSE Let(next(current.stack), LAMBDA n :
                 IF IsKind(n.token, "Characters") \/ IsKind(n.token, "CData")
                 THEN Done(n.token.v.data, n.stack)
                 ELSE Failed("Expected characters", n.stack)))

\* string_field(name, stack)
string_field(name, stack) ==
    Let(start_element(name, stack), LAMBDA started :
        IF ~started.ok THEN started
        ELSE Let(characters(started.stack), LAMBDA value :
                 IF ~value.ok THEN value
                 ELSE Let(end_element(name, value.stack), LAMBDA ended :
                          IF ~ended.ok THEN ended
                          ELSE Done(value.v, ended.stack))))

\* The loop of skip_tree at nesting depth deep.
RECURSIVE SkipLoop(_, _)
SkipLoop(deep, stack) ==
    Let(next(stack), LAMBDA n :
        IF ~n.token.some THEN n.stack
        ELSE IF n.token.v.kind = "StartElement"
        THEN SkipLoop(deep + 1, n.stack)
        ELSE IF n.token.v.kind = "EndElement"
        THEN IF deep > 1 THEN SkipLoop(deep - 1, n.stack) ELSE n.stack
        ELSE SkipLoop(deep, n.stack))

\* skip_tree with its depth counter starting at one.
skip_tree_from_one(stack) == SkipLoop(1, stack)

\* skip_tree(stack)
skip_tree(stack) == SkipLoop(0, stack)

\* find_start_element(stack)
RECURSIVE find_start_element(_)
find_start_element(stack) ==
    Let(peek(stack), LAMBDA p :
        IF IsKind(p.token, "StartElement") THEN p.stack
        ELSE IF ~p.token.some \/ IsKind(p.token, "Error") THEN p.stack
        ELSE Let(next(p.stack), LAMBDA n : find_start_element(n.stack)))

(***************************************************************************)
(* Error classification (src/src/request.rs,                               *)
(* src/src/core/proto/json/error.rs)                                       *)
(***************************************************************************)
\* BufferedHttpResponse: status, headers by lowercase name, raw body.
BufferedHttpResponse(status, hdrs, body) ==
    [status |-> status, headers |-> hdrs, body |-> body]

\* Ks3Error::Service(e) and Ks3Error::Unknown(res)
Service(e) == [variant |-> "Service", error |-> e]

Unknown(res) == [variant |-> "Unknown", response |-> res]

\* CreateBucketError::BucketAlreadyExists(message) and
\* CreateBucketError::BucketAlreadyOwnedByYou(message)
BucketAlreadyExists(message) ==
    [variant |-> "BucketAlreadyExists", message |-> message]

BucketAlreadyOwnedByYou(message) ==
    [variant |-> "BucketAlreadyOwnedByYou", message |-> message]

\* The children of an <Error> element read into an XmlError.
RECURSIVE ErrorChildren(_, _)
ErrorChildren(obj, stack) ==
    Let(peek(stack), LAMBDA p :
        IF IsKind(p.token, "EndElement") THEN Done(obj, p.stack)
        ELSE IF IsKind(p.token, "StartElement")
        THEN IF p.token.v.name = "Code"
             THEN Let(string_field("Code", p.stack), LAMBDA code :
                      IF code.ok
                      THEN ErrorChildren([obj EXCEPT !.code = code.v],
                                         code.stack)
                      ELSE code)
             ELSE IF p.token.v.name = "Message"
             THEN Let(string_field("Message", p.stack), LAMBDA message :
                      IF message.ok
                      THEN ErrorChildren([obj EXCEPT !.message = message.v],
                                         message.stack)
                      ELSE message)
             ELSE Let(skip_tree(p.stack), LAMBDA skipped :
                      ErrorChildren(obj, skipped))
        ELSE IF ~p.token.some \/ IsKind(p.token, "Error")
        THEN Failed("Expected EndElement got " \o Debug(p.token), p.stack)
        ELSE Let(next(p.stack), LAMBDA n : ErrorChildren(obj, n.stack)))

\* XmlErrorDeserializer::deserialize(tag_name, stack): an element tag_name
\* holding at least a Code and a Message child is read into an XmlError.
XmlErrorDeserialize(tag_name, stack) ==
    Let(start_element(tag_name, stack), LAMBDA started :
        IF ~started.ok THEN started
        ELSE Let(ErrorChildren([code |-> "", message |-> ""], started.stack),
                 LAMBDA obj :
                 IF ~obj.ok THEN obj
                 ELSE Let(end_element(tag_name, obj.stack), LAMBDA ended :
                          IF ~ended.ok THEN ended
                          ELSE Done(obj.v, ended.stack))))

\* Self::deserialize(&mut stack) after find_start_element(&mut stack), over
\* the events of the body.
DeserializeError(events) ==
    Let(find_start_element(events), LAMBDA stack :
        XmlErrorDeserialize("Error", stack))

\* Variant of CreateBucketError::from_response that takes every parsed
\* error for BucketAlreadyExists.
CreateBucketFromResponseAny(res, events) ==
    Let(DeserializeError(events), LAMBDA parsed_error :
        IF parsed_error.ok
        THEN Service(BucketAlreadyExists(parsed_error.v.message))
        ELSE Unknown(res))

\* CreateBucketError::from_response(res), events being what the event
\* reader yields over res.body.
CreateBucketFromResponse(res, events) ==
    Let(DeserializeError(events), LAMBDA parsed_error :
        IF parsed_error.ok /\ parsed_error.v.code = "BucketAlreadyExists"
        THEN Service(BucketAlreadyExists(parsed_error.v.message))
        ELSE IF parsed_error.ok
                /\ parsed_error.v.code = "BucketAlreadyOwnedByYou"
        THEN Service(BucketAlreadyOwnedByYou(parsed_error.v.message))
        ELSE Unknown(res))

\* PutObjectError::from_response(res): no code is known.
PutObjectFromResponse(res, events) ==
    Let(DeserializeError(events), LAMBDA parsed_error :
        IF parsed_error.ok THEN Unknown(res) ELSE Unknown(res))

\* serde_json::Value
JsonString(s) == [type |-> "string", s |-> s]

JsonNumber == [type |-> "number", s |-> ""]

JsonNull == [type |-> "null", s |-> ""]

JsonArray == [type |-> "array", fields |-> EmptyMap]

JsonObject(fields) == [type |-> "object", fields |-> fields]

\* Value::get(key)
JsonGet(json, key) ==
    IF json.type = "object" /\ key \in DOMAIN json.fields
    THEN Some(json.fields[key])
    ELSE None

\* Option::or_else
OrElse(first, second) == IF first.some THEN first ELSE second

\* Option<&Value>::and_then(Value::as_str)
AsStr(value) ==
    IF value.some /\ value.v.type = "string" THEN Some(value.v.s) ELSE None

\* Option::unwrap_or
UnwrapOr(option, default) == IF option.some THEN option.v ELSE default

\* raw_error_type.split(':').next()
BeforeColon(raw_error_type) == Split(raw_error_type, ":")[1]

\* Variant of parse_rest that prefers the body's code to the header.
parse_rest_body_first(res, json) ==
    IF ~json.ok THEN None
    ELSE LET in_body == AsStr(OrElse(JsonGet(json.v, "code"),
                                     JsonGet(json.v, "Code")))
             typ == IF in_body.some THEN in_body.v
                    ELSE IF "x-amzn-errortype" \in DOMAIN res.headers
                    THEN BeforeColon(res.headers["x-amzn-errortype"])
                    ELSE "Unknown"
             msg == UnwrapOr(AsStr(OrElse(JsonGet(json.v, "message"),
                                          JsonGet(json.v, "Message"))), "")
         IN Some([typ |-> typ, msg |-> msg])

\* Error::parse_rest(res), json being the result of from_slice over
\* res.body.
parse_rest(res, json) ==
    IF ~json.ok THEN None
    ELSE LET typ == IF "x-amzn-errortype" \in DOMAIN res.headers
                    THEN BeforeColon(res.headers["x-amzn-errortype"])
                    ELSE UnwrapOr(AsStr(OrElse(JsonGet(json.v, "code"),
                                               JsonGet(json.v, "Code"))),
                                  "Unknown")
             msg == UnwrapOr(AsStr(OrElse(JsonGet(json.v, "message"),
                                          JsonGet(json.v, "Message"))), "")
         IN Some([typ |-> typ, msg |-> msg])

(***************************************************************************)
(* Specification SpecErrors: buffered responses of many bodies and headers *)
(* are handed to the error classifiers.                                    *)
(***************************************************************************)
\* The response bodies explored, by a name for each.
Body ==
    [exists |->
         "<Error><Code>BucketAlreadyExists</Code><Message>taken</Message></Error>",
     owned |->
         "<Error><Code>BucketAlreadyOwnedByYou</Code><Message>yours</Message></Error>",
     no_such_key |->
         "<Error><Code>NoSuchKey</Code><Message>none</Message></Error>",
     pretty |->
         "<?xml version=\"1.0\"?>\n<Error>\n <Message>taken</Message>\n <Code>BucketAlreadyExists</Code>\n <RequestId>r1</RequestId>\n</Error>",
     cdata |->
         "<Error><Code><![CDATA[BucketAlreadyOwnedByYou]]></Code><Message></Message></Error>",
     other |->
         "<Other><Code>BucketAlreadyExists</Code></Other>",
     truncated |->
         "<Error><Code>BucketAlreadyExists</Code>",
     nested |->
         "<Error><Code><b>BucketAlreadyExists</b></Code></Error>",
     text |->
         "Service Unavailable",
     json_lower |->
         "{\"code\":\"Throttled\",\"message\":\"slow down\"}",
     json_upper |->
         "{\"Code\":\"Denied\",\"Message\":\"no\"}",
     json_both |->
         "{\"code\":\"Throttled\",\"Code\":\"Denied\",\"message\":\"slow down\",\"Message\":\"no\"}",
     json_untyped |->
         "{\"code\":5,\"Code\":\"Denied\",\"message\":null,\"Message\":\"no\"}",
     json_empty |->
         "{}",
     json_list |->
         "[]",
     json_typed |->
         "{\"__type\":\"com.example#BucketAlreadyExists\",\"message\":\"taken\"}",
     json_truncated |->
         "{\"code\":"]

Bodies == {Body[k] : k \in DOMAIN Body} \cup {""}

\* <name>data</name> as events
Element(name, data) == <<StartElement(name), Characters(data), EndElement(name)>>

\* The event sequences xml::EventReader yields over a body.  Where the
\* document fails before its root element the reader may or may not have
\* announced the document first.
EventsOf(body) ==
    CASE body = Body.exists ->
            {<<StartDocument, StartElement("Error")>>
                 \o Element("Code", "BucketAlreadyExists")
                 \o Element("Message", "taken")
                 \o <<EndElement("Error"), EndDocument>>}
      [] body = Body.owned ->
            {<<StartDocument, StartElement("Error")>>
                 \o Element("Code", "BucketAlreadyOwnedByYou")
                 \o Element("Message", "yours")
                 \o <<EndElement("Error"), EndDocument>>}
      [] body = Body.no_such_key ->
            {<<StartDocument, StartElement("Error")>>
                 \o Element("Code", "NoSuchKey") \o Element("Message", "none")
                 \o <<EndElement("Error"), EndDocument>>}
      [] body = Body.pretty ->
            {<<StartDocument, StartElement("Error"), Whitespace("\n ")>>
                 \o Element("Message", "taken") \o <<Whitespace("\n ")>>
                 \o Element("Code", "BucketAlreadyExists")
                 \o <<Whitespace("\n ")>> \o Element("RequestId", "r1")
                 \o <<Whitespace("\n"), EndElement("Error"), EndDocument>>}
      [] body = Body.cdata ->
            {<<StartDocument, StartElement("Error"), StartElement("Code"),
               CData("BucketAlreadyOwnedByYou"), EndElement("Code"),
               StartElement("Message"), EndElement("Message"),
               EndElement("Error"), EndDocument>>}
      [] body = Body.other ->
            {<<StartDocument, StartElement("Other")>>
                 \o Element("Code", "BucketAlreadyExists")
                 \o <<EndElement("Other"), EndDocument>>}
      [] body = Body.truncated ->
            {<<StartDocument, StartElement("Error")>>
                 \o Element("Code", "BucketAlreadyExists") \o <<ReaderError>>}
      [] body = Body.nested ->
            {<<StartDocument, StartElement("Error"), StartElement("Code")>>
                 \o Element("b", "BucketAlreadyExists")
                 \o <<EndElement("Code"), EndElement("Error"), EndDocument>>}
      [] OTHER -> {<<ReaderError>>, <<StartDocument, ReaderError>>}

\* serde_json::from_slice::<Value>(body)
FromSlice(body) ==
    CASE body = Body.json_lower ->
            Ok(JsonObject(("code" :> JsonString("Throttled"))
                          @@ ("message" :> JsonString("slow down"))))
      [] body = Body.json_upper ->
            Ok(JsonObject(("Code" :> JsonString("Denied"))
                          @@ ("Message" :> JsonString("no"))))
      [] body = Body.json_both ->
            Ok(JsonObject(("code" :> JsonString("Throttled"))
                          @@ ("Code" :> JsonString("Denied"))
                          @@ ("message" :> JsonString("slow down"))
                          @@ ("Message" :> JsonString("no"))))
      [] body = Body.json_untyped ->
            Ok(JsonObject(("code" :> JsonNumber)
                          @@ ("Code" :> JsonString("Denied"))
                          @@ ("message" :> JsonNull)
                          @@ ("Message" :> JsonString("no"))))
      [] body = Body.json_empty -> Ok(JsonObject(EmptyMap))
      [] body = Body.json_list -> Ok(JsonArray)
      [] body = Body.json_typed ->
            Ok(JsonObject(("__type"
                               :> JsonString("com.example#BucketAlreadyExists"))
                          @@ ("message" :> JsonString("taken"))))
      [] OTHER -> Err("not JSON")

\* The headers of the explored responses.
ResponseHeaders ==
    {EmptyMap,
     ("x-amzn-requestid" :> "r1"),
     ("x-amzn-errortype" :> "ValidationException:http://internal/coral/"),
     ("x-amzn-errortype" :> "AccessDenied") @@ ("x-amzn-requestid" :> "r2"),
     ("x-amzn-errortype" :> "")}

Responses ==
    {BufferedHttpResponse(status, h, body) :
         status \in {"409", "503"}, h \in ResponseHeaders, body \in Bodies}

InitErrors == Idle /\ New("PUT", "s3", Named("UsEast1"), "/mybucket")

\* Each response is classified once: from_response takes the response by
\* value.
Unclassified == last_call.op = "new"

\* CreateBucketError::from_response(res), its result observed.
CreateBucketError ==
    \E res \in Responses :
        \E events \in EventsOf(res.body) :
            /\ Unclassified
            /\ last_call' = [op |-> "CreateBucketError::from_response",
                             res |-> res,
                             returned |->
                                 CreateBucketFromResponse(res, events)]
            /\ UNCHANGED request_state

\* PutObjectError::from_response(res), its result observed.
PutObjectError ==
    \E res \in Responses :
        \E events \in EventsOf(res.body) :
            /\ Unclassified
            /\ last_call' = [op |-> "PutObjectError::from_response",
                             res |-> res,
                             returned |-> PutObjectFromResponse(res, events)]
            /\ UNCHANGED request_state

\* Error::parse_rest(&res), its result observed.
ParseRest ==
    \E res \in Responses :
        /\ Unclassified
        /\ last_call' = [op |-> "parse_rest", res |-> res,
                         returned |-> parse_rest(res, FromSlice(res.body))]
        /\ UNCHANGED request_state

NextErrors ==
    \/ CreateBucketError
    \/ PutObjectError
    \/ ParseRest

SpecErrors == InitErrors /\ [][NextErrors]_vars

(***************************************************************************)
(* Properties of error classification, checked under SpecErrors            *)
(***************************************************************************)
\* The bodies that are an Error element with a code CreateBucket knows, and
\* the typed error each gives.
TypedBodies ==
    (Body.exists :> BucketAlreadyExists("taken"))
        @@ (Body.owned :> BucketAlreadyOwnedByYou("yours"))
        @@ (Body.pretty :> BucketAlreadyExists("taken"))
        @@ (Body.cdata :> BucketAlreadyOwnedByYou(""))

ParsedRest == last_call.op = "parse_rest"

\* The error type and message in the body of each JSON body explored: the
\* code field, else the Code field, else "Unknown"; the message field, else
\* the Message field, else "".  A field that is present but holds no string
\* gives nothing and is not replaced by its capitalised twin.
InBody ==
    (Body.json_lower :> <<"Throttled", "slow down">>)
        @@ (Body.json_upper :> <<"Denied", "no">>)
        @@ (Body.json_both :> <<"Throttled", "slow down">>)
        @@ (Body.json_untyped :> <<"Unknown", "">>)
        @@ (Body.json_empty :> <<"Unknown", "">>)
        @@ (Body.json_list :> <<"Unknown", "">>)
        @@ (Body.json_typed :> <<"Unknown", "taken">>)

\* The text before the first ":" of each x-amzn-errortype value explored.
InHeader ==
    ("ValidationException:http://internal/coral/" :> "ValidationException")
        @@ ("AccessDenied" :> "AccessDenied") @@ ("" :> "")

\* C20: for a JSON body the REST classifier takes the error type from the
\* x-amzn-errortype header, the text before its first ":", whenever the
\* header is present, whatever the body's code; otherwise from the body's
\* code field, else its Code field, else "Unknown"; the message is the
\* body's message field, else its Message field, else ""; a body that is
\* not JSON gives no classified error.
C20_ParseRest ==
    ParsedRest =>
        LET res == last_call.res
        IN IF res.body \notin DOMAIN InBody THEN last_call.returned = None
           ELSE /\ last_call.returned.some
                /\ last_call.returned.v.msg = InBody[res.body][2]
                /\ last_call.returned.v.typ =
                       IF "x-amzn-errortype" \in DOMAIN res.headers
                       THEN InHeader[res.headers["x-amzn-errortype"]]
                       ELSE InBody[res.body][1]

\* The header has overridden the code of a body that has both spellings.
C20_Witness ==
    /\ ParsedRest
    /\ last_call.res.body = Body.json_both
    /\ "x-amzn-errortype" \in DOMAIN last_call.res.headers
    /\ last_call.returned =
           Some([typ |-> "ValidationException", msg |-> "slow down"])

(***************************************************************************)
(* Specification SpecXml: the cursor operations of util.rs are called, in  *)
(* any order, on the events of a response body.                            *)
(***************************************************************************)
\* Longest body drawn event by event.
MaxEvents == 3

XmlTokens ==
    {StartElementWith("Foo", <<<<"id", "1">>, <<"lang", "en">>>>),
     StartElement("Bar"), EndElement("Foo"), EndElement("Bar"),
     Characters("x"), CData("c"), Whitespace(" ")}

\* Every event sequence of at most MaxEvents events, and each of them cut
\* short by a reader error.
XmlStreams ==
    LET whole == UNION {[1..n -> XmlTokens] : n \in 0..MaxEvents}
    IN whole \cup {Append(s, ReaderError) : s \in {w \in whole : Len(w) < MaxEvents}}

\* The events of <name>inner</name>.
Nested(name, inner) == <<StartElement(name)>> \o inner \o <<EndElement(name)>>

\* Longer bodies: elements nested to depth three with text and whitespace
\* between them, whole and truncated.
NestedDocuments ==
    {Nested("Foo", Nested("Bar", <<Characters("x")>>) \o <<Whitespace(" ")>>
                   \o Nested("Bar", Nested("Foo", <<>>)))
        \o <<Whitespace(" "), Characters("x")>>,
     <<StartDocument, Whitespace(" ")>>
        \o Nested("Foo", <<Whitespace(" ")>>
                         \o Nested("Foo", Nested("Foo", <<CData("c")>>))
                         \o <<Characters("x")>>)
        \o <<EndDocument>>,
     <<StartElement("Foo"), StartElement("Bar"), Characters("x"),
       EndElement("Bar"), Whitespace(" ")>>,
     <<StartElement("Foo"), Whitespace(" "), StartElement("Bar"),
       ReaderError>>}

\* XmlResponse::new(reader.into_iter().peekable()) over the events of a body.
XmlResponseNew(bodies) ==
    /\ document \in bodies
    /\ xml_stack = document
    /\ taken = <<>>
    /\ frame = [pc |-> "idle"]

InitXml ==
    /\ New("GET", "s3", Named("UsEast1"), "/")
    /\ XmlResponseNew(XmlStreams \cup NestedDocuments)
    /\ NoReader

\* The tokens Next::next returned during a call that took the stack from
\* before to after: the events taken off the front, less the whitespace.
Tokens(before, after) ==
    SelectSeq(SubSeq(before, 1, Len(before) - Len(after)),
              LAMBDA e : e.kind # "Whitespace")

\* What the latest call returned, None when it returned nothing.
Returned(call) == IF "returned" \in DOMAIN call THEN call.returned ELSE None

untouched_by_xml ==
    <<request_fields, headers, params, hostname, payload,
      canonical_query_string, canonical_uri, now, stdout, panicked,
      reader_state>>

\* stack.peek(), its result observed.
PeekCall ==
    \E p \in {peek(xml_stack)} :
        /\ xml_stack' = p.stack
        /\ last_call' = [op |-> "peek", stack |-> xml_stack,
                         returned |-> p.token]
        /\ UNCHANGED <<document, taken, frame, untouched_by_xml>>

\* stack.next(), its result observed.
NextCall ==
    \E n \in {next(xml_stack)} :
        /\ xml_stack' = n.stack
        /\ taken' = IF n.token.some THEN Append(taken, n.token.v) ELSE taken
        /\ last_call' = [op |-> "next", stack |-> xml_stack,
                         returned |-> n.token, prev |-> last_call.op,
                         prior |-> Returned(last_call)]
        /\ UNCHANGED <<document, frame, untouched_by_xml>>

\* A call of one of the functions over the cursor, its result observed.
CursorCall(op, element_name, result) ==
    /\ xml_stack' = result.stack
    /\ taken' = taken \o Tokens(xml_stack, result.stack)
    /\ last_call' = [op |-> op, element_name |-> element_name,
                     stack |-> xml_stack, returned |-> result]
    /\ UNCHANGED <<document, frame, untouched_by_xml>>

XmlNames == {"Foo", "Bar"}

\* start_element(element_name, stack)
StartElementCall ==
    \E element_name \in XmlNames :
        \E r \in {start_element(element_name, xml_stack)} :
            CursorCall("start_element", element_name, r)

\* end_element(element_name, stack)
EndElementCall ==
    \E element_name \in XmlNames :
        \E r \in {end_element(element_name, xml_stack)} :
            CursorCall("end_element", element_name, r)

\* characters(stack)
CharactersCall ==
    \E r \in {characters(xml_stack)} : CursorCall("characters", "", r)

\* skip_tree(stack)
SkipTreeCall ==
    \E s \in {skip_tree(xml_stack)} :
        CursorCall("skip_tree", "", Done(<<>>, s))

NextXml ==
    \/ PeekCall
    \/ NextCall
    \/ StartElementCall
    \/ EndElementCall
    \/ CharactersCall
    \/ SkipTreeCall

SpecXml == InitXml /\ [][NextXml]_vars

\* The events of a stack that are not whitespace.
Ahead(stack) == SelectSeq(stack, LAMBDA e : e.kind # "Whitespace")

\* C21: neither peek nor next returns a whitespace event; peek takes only
\* whitespace events off the stack, so a next right after a peek returns the
\* token the peek returned; and the tokens next has returned so far, followed
\* by the events still ahead less their whitespace, are the events of the
\* body less their whitespace.
C21_Whitespace ==
    /\ last_call.op \in {"peek", "next"} =>
           ~IsKind(last_call.returned, "Whitespace")
    /\ last_call.op = "peek" =>
           \E k \in 0..Len(last_call.stack) :
               /\ xml_stack = SubSeq(last_call.stack, k + 1,
                                     Len(last_call.stack))
               /\ \A i \in 1..k : last_call.stack[i].kind = "Whitespace"
    /\ (last_call.op = "next" /\ last_call.prev = "peek") =>
           last_call.returned = last_call.prior
    /\ taken \o Ahead(xml_stack) = Ahead(document)

C21_Witness ==
    /\ last_call.op = "next"
    /\ last_call.prev = "peek"
    /\ last_call.stack # <<>>
    /\ last_call.returned.some
    /\ Len(taken) = 2
    /\ Len(document) - Len(xml_stack) > 2

\* The token a call found ahead, None at the end of the events.
Found == IF Ahead(last_call.stack) = <<>> THEN None
         ELSE Some(Head(Ahead(last_call.stack)))

\* The latest call advanced the cursor by one token: it left the events after
\* the first that is not whitespace, or none when there was no such event.
TookOne ==
    /\ \E k \in 0..Len(last_call.stack) :
           xml_stack = SubSeq(last_call.stack, k + 1, Len(last_call.stack))
    /\ Ahead(xml_stack) = IF Found.some THEN Tail(Ahead(last_call.stack))
                          ELSE <<>>

\* The attribute map of a start-tag: each local name with the value of the
\* last attribute of that name.
AttributesOf(tag) ==
    [k \in {tag.attributes[i][1] : i \in DOMAIN tag.attributes} |->
        LET last == CHOOSE i \in DOMAIN tag.attributes :
                        /\ tag.attributes[i][1] = k
                        /\ \A j \in DOMAIN tag.attributes :
                               tag.attributes[j][1] = k => j <= i
        IN tag.attributes[last][2]]

\* How an error message refers to the token found.
Actual(token) ==
    IF ~token.some THEN "None"
    ELSE IF token.v.kind \in {"StartElement", "EndElement"} THEN token.v.name
    ELSE IF token.v.kind = "Error" THEN "Err"
    ELSE token.v.kind

Mentions(message, text) == Find(message, text) > 0

\* C22: start_element(name) advances the cursor by exactly one token; it
\* succeeds, with the attribute map of the tag, exactly when that token is a
\* start-tag named name, and otherwise fails with a message that mentions
\* both name and the token found; end_element does the same for end-tags.
C22_ExpectTag ==
    last_call.op \in {"start_element", "end_element"} =>
        LET kind == IF last_call.op = "start_element" THEN "StartElement"
                    ELSE "EndElement"
            matches == /\ IsKind(Found, kind)
                       /\ Found.v.name = last_call.element_name
        IN /\ TookOne
           /\ last_call.returned.ok <=> matches
           /\ (matches /\ kind = "StartElement") =>
                  last_call.returned.v = AttributesOf(Found.v)
           /\ ~matches =>
                  /\ Mentions(last_call.returned.message,
                              last_call.element_name)
                  /\ Mentions(last_call.returned.message, Actual(Found))

\* expecting Bar against <Foo id="1" lang="en"> behind whitespace, and
\* expecting Foo against it.
C22_Witness ==
    /\ last_call.op = "start_element"
    /\ last_call.stack # <<>>
    /\ Head(last_call.stack).kind = "Whitespace"
    /\ IsKind(Found, "StartElement")
    /\ Found.v.name = "Foo"
    /\ \/ /\ last_call.element_name = "Bar"
          /\ last_call.returned = Failed("START Expected Bar got Foo",
                                         xml_stack)
       \/ /\ last_call.element_name = "Foo"
          /\ last_call.returned.ok
          /\ last_call.returned.v = ("id" :> "1" @@ "lang" :> "en")

\* C23: characters returns the empty string and takes no token (whitespace
\* apart) when the token ahead is an end-tag; otherwise it takes exactly one
\* token, returns its content when that token is text or CDATA, and fails
\* when it is any other token or the events have ended.
C23_Characters ==
    last_call.op = "characters" =>
        IF IsKind(Found, "EndElement")
        THEN /\ last_call.returned.ok
             /\ last_call.returned.v = ""
             /\ Ahead(xml_stack) = Ahead(last_call.stack)
        ELSE /\ TookOne
             /\ IF IsKind(Found, "Characters") \/ IsKind(Found, "CData")
                THEN /\ last_call.returned.ok
                     /\ last_call.returned.v = Found.v.data
                ELSE ~last_call.returned.ok

\* An empty element behind whitespace, a CDATA section, and a start-tag where
\* text was expected.
C23_Witness ==
    /\ last_call.op = "characters"
    /\ \/ /\ last_call.stack = <<Whitespace(" "), EndElement("Bar")>>
          /\ xml_stack = <<EndElement("Bar")>>
          /\ last_call.returned.v = ""
       \/ /\ last_call.stack = <<CData("c"), EndElement("Foo")>>
          /\ xml_stack = <<EndElement("Foo")>>
          /\ last_call.returned.v = "c"
       \/ /\ last_call.stack = <<StartElement("Bar"), Characters("x")>>
          /\ xml_stack = <<Characters("x")>>
          /\ ~last_call.returned.ok

\* Start-tags less end-tags among the first j events of a stack.
Depth(stack, j) ==
    Cardinality({i \in 1..j : stack[i].kind = "StartElement"})
        - Cardinality({i \in 1..j : stack[i].kind = "EndElement"})

\* Where the element that opens a stack ends: the first end-tag that brings
\* the depth back to zero; no position when the element is cut short.
Closing(stack) ==
    LET ends == {k \in 1..Len(stack) : /\ stack[k].kind = "EndElement"
                                       /\ Depth(stack, k) = 0}
    IN {k \in ends : \A j \in ends : k <= j}

\* C24: called with a start-tag ahead, skip_tree takes the events of that
\* element up to and including its matching end-tag, whatever lies between
\* the tags, and leaves the events after it; when the events end before the
\* matching end-tag it takes them all and returns.
C24_SkipTree ==
    (last_call.op = "skip_tree" /\ IsKind(Found, "StartElement")) =>
        IF Closing(last_call.stack) # {}
        THEN \A k \in Closing(last_call.stack) :
                 xml_stack = SubSeq(last_call.stack, k + 1,
                                    Len(last_call.stack))
        ELSE xml_stack = <<>>

\* An element with two children, one of them with a child of its own, is
\* skipped from its start-tag; the whitespace and text after it are left.
C24_Witness ==
    /\ last_call.op = "skip_tree"
    /\ Len(last_call.stack) = 12
    /\ \E k \in 1..Len(last_call.stack) : Depth(last_call.stack, k) = 3
    /\ xml_stack = <<Whitespace(" "), Characters("x")>>

(***************************************************************************)
(* Specification SpecDeserialize: deserialize_elements runs, one loop      *)
(* iteration at a time, over the events of a response body.                *)
(***************************************************************************)
\* Most pieces of content drawn between the tags of the parent element.
MaxChildren == 2

\* What lies between the tags of the parent: whitespace, text, and child
\* elements that are empty, hold text, or hold an element of their own.
ChildPieces ==
    {<<Whitespace(" ")>>, <<Characters("x")>>, Nested("Bar", <<>>),
     Nested("Baz", <<Characters("x")>>),
     Nested("Foo", <<Whitespace(" ")>> \o Nested("Foo", <<CData("c")>>))}

RECURSIVE Contents(_)
Contents(n) ==
    IF n = 0 THEN {<<>>}
    ELSE Let(Contents(n - 1), LAMBDA shorter :
             shorter \cup {c \o p : c \in shorter, p \in ChildPieces})

\* Well-formed bodies: a Foo element, alone or followed by the end of the
\* document.
Elements ==
    {Nested("Foo", c) \o after :
        c \in Contents(MaxChildren),
        after \in {<<>>, <<Whitespace(" "), EndDocument>>}}

\* The same bodies cut short, by the end of the events or by a reader error.
Truncated ==
    LET cut == UNION {{SubSeq(e, 1, k) : k \in 0..(Len(e) - 1)} :
                         e \in Elements}
    IN cut \cup {Append(c, ReaderError) : c \in cut}

\* The element handlers of the callers: one that notes the child's name and
\* skips its subtree, one that reads the child as a string field.
Handlers == {"skip_tree", "string_field"}

\* handle_element(&local_name, stack, &mut obj)
handle_element(handler, local_name, stack, obj) ==
    IF handler = "skip_tree"
    THEN Done(Append(obj, local_name), skip_tree(stack))
    ELSE Let(string_field(local_name, stack), LAMBDA field :
             IF field.ok THEN Done(Append(obj, local_name), field.stack)
             ELSE field)

InitDeserialize ==
    /\ New("GET", "s3", Named("UsEast1"), "/")
    /\ XmlResponseNew(Elements \cup Truncated)
    /\ NoReader

\* The cursor moves from xml_stack to stack and the call goes on as next.
Step(stack, next_frame) ==
    /\ xml_stack' = stack
    /\ taken' = taken \o Tokens(xml_stack, stack)
    /\ frame' = next_frame
    /\ UNCHANGED <<document, untouched_by_xml>>

\* The call returned result.
Returning(result) ==
    [pc |-> "returned", tag_name |-> frame.tag_name,
     handle_element |-> frame.handle_element, result |-> result]

\* deserialize_elements(tag_name, stack, handle_element) up to its loop.
DeserializeElements ==
    /\ frame.pc = "idle"
    /\ \E tag_name \in XmlNames, handler \in Handlers :
           \E started \in {start_element(tag_name, xml_stack)} :
               /\ Step(started.stack,
                       IF started.ok
                       THEN [pc |-> "loop", tag_name |-> tag_name,
                             handle_element |-> handler, obj |-> <<>>,
                             iteration |-> 0]
                       ELSE [pc |-> "returned", tag_name |-> tag_name,
                             handle_element |-> handler,
                             result |-> Err(started.message)])
               /\ last_call' = [op |-> "deserialize_elements",
                                stack |-> xml_stack]

\* The frame after one more iteration of the loop; the iterations are
\* counted modulo two, which tells an iteration from the one before it.
Iterated(next_frame) ==
    [next_frame EXCEPT !.iteration = (frame.iteration + 1) % 2]

\* The loop finds an end-tag ahead and breaks.
Break ==
    /\ frame.pc = "loop"
    /\ \E p \in {peek(xml_stack)} :
           /\ IsKind(p.token, "EndElement")
           /\ Step(p.stack, Iterated([frame EXCEPT !.pc = "end"]))
           /\ UNCHANGED last_call

\* The loop finds a start-tag ahead and hands it to the handler.
HandleElement ==
    /\ frame.pc = "loop"
    /\ \E p \in {peek(xml_stack)} :
           /\ IsKind(p.token, "StartElement")
           /\ \E r \in {handle_element(frame.handle_element, p.token.v.name,
                                       p.stack, frame.obj)} :
                  Step(r.stack,
                       IF r.ok THEN Iterated([frame EXCEPT !.obj = r.v])
                       ELSE Returning(Err(r.message)))
           /\ UNCHANGED last_call

\* The catch-all arm of the loop taking start-tags as well.
DiscardTags ==
    /\ frame.pc = "loop"
    /\ \E p \in {peek(xml_stack)} :
           /\ ~IsKind(p.token, "EndElement")
           /\ Step(next(p.stack).stack, Iterated(frame))
           /\ UNCHANGED last_call

\* The loop finds anything else ahead, the end of the events included, and
\* calls stack.next().
Discard ==
    /\ frame.pc = "loop"
    /\ \E p \in {peek(xml_stack)} :
           /\ ~IsKind(p.token, "EndElement")
           /\ ~IsKind(p.token, "StartElement")
           /\ Step(next(p.stack).stack, Iterated(frame))
           /\ UNCHANGED last_call

\* end_element(tag_name, stack)?; Ok(obj)
Return ==
    /\ frame.pc = "end"
    /\ \E ended \in {end_element(frame.tag_name, xml_stack)} :
           /\ Step(ended.stack,
                   Returning(IF ended.ok THEN Ok(frame.obj)
                             ELSE Err(ended.message)))
           /\ UNCHANGED last_call

NextDeserialize ==
    \/ DeserializeElements
    \/ Break
    \/ HandleElement
    \/ Discard
    \/ Return

SpecDeserialize == InitDeserialize /\ [][NextDeserialize]_vars

\* The names of the direct children of the element that opens a stack, in
\* document order: its start-tags at depth two.
RECURSIVE ChildNames(_, _)
ChildNames(stack, i) ==
    IF i > Len(stack) THEN <<>>
    ELSE IF stack[i].kind = "StartElement" /\ Depth(stack, i) = 2
    THEN <<stack[i].name>> \o ChildNames(stack, i + 1)
    ELSE ChildNames(stack, i + 1)

\* The call was made on a well-formed element named tag_name with a handler
\* that takes the whole subtree of each child, and has returned.
ReturnedFromElement ==
    /\ frame.pc = "returned"
    /\ frame.handle_element = "skip_tree"
    /\ document # <<>>
    /\ Head(document) = StartElement(frame.tag_name)
    /\ Closing(document) # {}

\* C25: over a well-formed element deserialize_elements takes the opening
\* tag, calls the handler once for each direct child in document order with
\* the child's name, discards what lies between the children, and takes the
\* closing tag; over an element without children the handler is not called
\* and the default value is returned.
C25_Children ==
    ReturnedFromElement =>
        \A k \in Closing(document) :
            /\ frame.result = Ok(ChildNames(SubSeq(document, 1, k), 1))
            /\ xml_stack = SubSeq(document, k + 1, Len(document))
            /\ k = 2 => frame.result = Ok(<<>>)

\* Two children with text before, between and after them; and the element
\* without children.
C25_Witness ==
    /\ ReturnedFromElement
    /\ \/ /\ document = Nested("Foo", Nested("Bar", <<>>)
                                      \o Nested("Baz", <<Characters("x")>>))
          /\ frame.result = Ok(<<"Bar", "Baz">>)
       \/ /\ document = Nested("Foo", <<>>)
          /\ frame.result = Ok(<<>>)

\* The call keeps running: the thread that made it is scheduled as long as
\* it has a step to take.
SpecDeserializeFair == SpecDeserialize /\ WF_vars(NextDeserialize)

\* C26: over every finite sequence of events, cut short or not,
\* deserialize_elements eventually returns, a value or a parse error.
C26_Terminates == <>(frame.pc = "returned")

\* C27: whatever the path and the region of the request, a call of sign
\* returns; it does not panic.
C27_SignReturns == last_call.op = "sign" => last_call.outcome # "panicked"

(***************************************************************************)
(* The readers over a byte stream (src/src/signature/stream.rs)            *)
(***************************************************************************)
\* Poll<T>
Pending == [ready |-> FALSE]

Ready(v) == [ready |-> TRUE, v |-> v]

\* The tail of poll_read from line 115: as many bytes as the destination has
\* room for are split off the buffer and put into the destination.
Fill(remaining, held, rest, asked, yielded) ==
    Let(IF remaining < Len(held) THEN remaining ELSE Len(held),
        LAMBDA available :
            [poll |-> Ready(Ok(<<>>)),
             buffer |-> SubSeq(held, available + 1, Len(held)),
             stream |-> rest, asked |-> asked, yielded |-> yielded,
             put |-> SubSeq(held, 1, available)])

\* poll_read that asks the stream for a chunk whatever the buffer holds.
poll_read_eager(remaining, held, rest) ==
    IF rest = <<>> THEN Fill(remaining, held, rest, TRUE, <<>>)
    ELSE Let(Head(rest), LAMBDA polled_next :
             IF ~polled_next.ready
             THEN [poll |-> Pending, buffer |-> held, stream |-> Tail(rest),
                   asked |-> TRUE, yielded |-> <<>>, put |-> ""]
             ELSE IF ~polled_next.v.ok
             THEN [poll |-> Ready(polled_next.v), buffer |-> held,
                   stream |-> Tail(rest), asked |-> TRUE,
                   yielded |-> <<polled_next.v>>, put |-> ""]
             ELSE Fill(remaining, held \o polled_next.v.v, Tail(rest), TRUE,
                       <<polled_next.v>>))

\* ImplAsyncRead::poll_read(cx, buf) with buf.remaining() = remaining, on a
\* reader whose buffer holds held and whose stream has the poll results rest
\* ahead (none ahead: the fused stream has ended): what it returns, the
\* buffer and stream it leaves, whether it asked the stream, the items the
\* stream yielded and the bytes put into buf.
poll_read(remaining, held, rest) ==
    IF held = ""
    THEN IF rest = <<>>
         THEN [poll |-> Ready(Ok(<<>>)), buffer |-> held, stream |-> rest,
               asked |-> TRUE, yielded |-> <<>>, put |-> ""]
         ELSE Let(Head(rest), LAMBDA polled_next :
                  IF ~polled_next.ready
                  THEN [poll |-> Pending, buffer |-> held,
                        stream |-> Tail(rest), asked |-> TRUE,
                        yielded |-> <<>>, put |-> ""]
                  ELSE IF ~polled_next.v.ok
                  THEN [poll |-> Ready(polled_next.v), buffer |-> held,
                        stream |-> Tail(rest), asked |-> TRUE,
                        yielded |-> <<polled_next.v>>, put |-> ""]
                  ELSE Fill(remaining, polled_next.v.v, Tail(rest), TRUE,
                            <<polled_next.v>>))
    ELSE Fill(remaining, held, rest, FALSE, <<>>)

\* The closure of ImplBlockingRead::read polled by block_on until it is
\* ready: a ready poll_read, whatever it holds, becomes
\* Ok(rb.filled().len()).
RECURSIVE BlockOn(_, _, _)
BlockOn(len, held, rest) ==
    Let(poll_read(len, held, rest), LAMBDA polled_read :
        IF ~polled_read.poll.ready
        THEN BlockOn(len, polled_read.buffer, polled_read.stream)
        ELSE [polled_read EXCEPT !.poll = Ready(Ok(Len(polled_read.put)))])

\* ImplBlockingRead::read(buf) with buf.len() = len.
read(len, held, rest) == BlockOn(len, held, rest)

(***************************************************************************)
(* Specification SpecReader: a reader made from a byte stream is read to   *)
(* the end and beyond, into destinations of any size.                      *)
(***************************************************************************)
\* Most poll results the stream has before it ends.
MaxItems == 3

\* What one poll of the stream gives: a chunk (empty or not), an I/O error,
\* or not ready yet.
StreamItems ==
    {Ready(Ok("")), Ready(Ok("ab")), Ready(Ok("cde")), Ready(Err("io")),
     Pending}

Streams == UNION {[1..n -> StreamItems] : n \in 0..MaxItems}

\* buf.remaining() of the destinations.
BufSizes == {0, 1, 2, 4}

\* ImplAsyncRead::new(stream), alone or inside ImplBlockingRead::new, for
\* the payload of a request.
InitReader ==
    /\ New("PUT", "s3", Named("UsEast1"), "/b/k")
    /\ NoResponse
    /\ stream \in Streams
    /\ buffer = ""
    /\ polled = <<>>
    /\ filled = ""

\* A call on the reader that returned what r describes.
ReadCall(op, remaining, r) ==
    /\ buffer' = r.buffer
    /\ stream' = r.stream
    /\ polled' = polled \o r.yielded
    /\ filled' = filled \o r.put
    /\ last_call' = [op |-> op, remaining |-> remaining, buffer |-> buffer,
                     ahead |-> Len(stream), asked |-> r.asked,
                     yielded |-> r.yielded, put |-> r.put,
                     returned |-> r.poll]
    /\ UNCHANGED <<request_fields, headers, params, hostname, payload,
                   canonical_query_string, canonical_uri, now, stdout,
                   panicked, response_state>>

\* poll_read on the reader into_async_read gave.
PollRead ==
    /\ last_call.op \in {"new", "poll_read"}
    /\ \E remaining \in BufSizes :
           \E r \in {poll_read(remaining, buffer, stream)} :
               ReadCall("poll_read", remaining, r)

\* read on the reader into_blocking_read gave.
Read ==
    /\ last_call.op \in {"new", "read"}
    /\ \E len \in BufSizes :
           \E r \in {read(len, buffer, stream)} : ReadCall("read", len, r)

NextReader ==
    \/ PollRead
    \/ Read

SpecReader == InitReader /\ [][NextReader]_vars

\* The bytes of the chunks among the items a stream yielded, in order.
RECURSIVE Chunks(_)
Chunks(items) ==
    IF items = <<>> THEN ""
    ELSE IF Head(items).ok THEN Head(items).v \o Chunks(Tail(items))
    ELSE Chunks(Tail(items))

ReadMetError ==
    /\ last_call.op = "read"
    /\ \E i \in 1..Len(last_call.yielded) : ~last_call.yielded[i].ok

\* C29: when the stream yields an I/O error during a read of the blocking
\* reader, read returns that error and not a count of bytes.
C29_ReadError ==
    ReadMetError =>
        \E i \in 1..Len(last_call.yielded) :
            last_call.returned = Ready(last_call.yielded[i])

\* A read into a destination with room completed with no byte filled.
ZeroRead ==
    /\ last_call.op \in {"poll_read", "read"}
    /\ last_call.remaining > 0
    /\ last_call.returned.ready
    /\ last_call.returned.v.ok
    /\ last_call.put = ""

\* C30: a read into a destination with room completes with no byte filled
\* only when the stream is exhausted: nothing is left for it to yield.
C30_ZeroRead == ZeroRead => stream = <<>>

====
